---- MODULE Spec2Model ----
(***************************************************************************)
(* Model of the ordered middleware registry of smithy-go                   *)
(* (middleware/ordered_group.go) and of the Deserialize step built on it   *)
(* (middleware/step_deserialize.go).                                       *)
(*                                                                         *)
(* A Go slice is modelled as its backing array together with its length:   *)
(* [arr |-> <<...>>, len |-> n]; the capacity is Len(arr).  Indices are    *)
(* Go's (0-based); arr[i + 1] is element i.                                *)
(***************************************************************************)
EXTENDS Integers, Sequences, FiniteSets, TLC

\* ------------------------------------------------------------------ values

\* RelativePosition (iota constants) and one value outside the enumeration.
After == 0
Before == 1
InvalidPos == Before + 1
Positions == {After, Before, InvalidPos}

\* Identifiers the callers use; "" is the empty id every entry point rejects.
IDs == {"a", "b", "c"}
EmptyID == ""

\* Distinct middleware values that carry the same id.
NumVersions == 2

\* Ids for which the callers hold several distinct middleware values.
TwinIDs == {"a"}

\* A middleware (ider): its ID() and which value it is.
Middlewares ==
    {[id |-> i, v |-> 1] : i \in IDs \cup {EmptyID}}
        \cup {[id |-> i, v |-> w] : i \in TwinIDs, w \in 1..NumVersions}

\* The nil interface value, where a middleware is expected.
NilMw == [id |-> EmptyID, v |-> 0]

\* error values (nil, or the class of the fmt.Errorf message)
NoErr == "nil"
ErrEmptyID == "must not be empty"
ErrExists == "already exists"
ErrNotFound == "not found"
ErrPosition == "invalid position"
ErrSlotMatch == "swap to ID must match slot being swapped"
Panic == "panic: interface conversion: interface is nil"

\* ------------------------------------------------------------------ slices

NilSlice == [arr |-> <<>>, len |-> 0]

\* A slice literal []string{...}: capacity equals length.
SliceOf(xs) == [arr |-> xs, len |-> Len(xs)]

Cap(s) == Len(s.arr)

\* The elements of slice s.
Val(s) == SubSeq(s.arr, 1, s.len)

\* s[:n]
Reslice(s, n) == [arr |-> s.arr, len |-> n]

\* Capacity append allocates when `need` elements do not fit in `old`.
GrowCap(old, need) == IF need > 2 * old THEN need ELSE 2 * old

\* append(s, xs...): in place when capacity allows, else a fresh array.
append(s, xs) ==
    LET n == s.len + Len(xs) IN
    IF n <= Cap(s)
    THEN [arr |-> [j \in 1..Cap(s) |->
                     IF j > s.len /\ j <= n THEN xs[j - s.len] ELSE s.arr[j]],
          len |-> n]
    ELSE [arr |-> [j \in 1..GrowCap(Cap(s), n) |->
                     IF j <= s.len THEN s.arr[j]
                     ELSE IF j <= n THEN xs[j - s.len] ELSE ""],
          len |-> n]

\* ----------------------------------------------------------- relativeOrder

\* has: linear scan, first index holding id.
has(s, id) ==
    LET hits == {i \in 0..(s.len - 1) : s.arr[i + 1] = id} IN
    IF hits = {} THEN [i |-> 0, found |-> FALSE]
    ELSE [i |-> CHOOSE i \in hits : \A j \in hits : i <= j, found |-> TRUE]

\* insert with After placing the id at the anchor's own index.
relativeOrder_insert_AtAnchor(s, i, id, pos) ==
    IF pos \in {Before, After}
    THEN LET s1 == append(s, <<"">>) IN
         [order |-> [arr |-> [j \in 1..Cap(s1) |->
                         IF j = i + 1 THEN id
                         ELSE IF j > i + 1 /\ j <= s1.len THEN s1.arr[j - 1]
                         ELSE s1.arr[j]],
                     len |-> s1.len],
          err |-> NoErr]
    ELSE [order |-> s, err |-> ErrPosition]

relativeOrder_insert(s, i, id, pos) ==
    CASE pos = Before ->
           LET s1 == append(s, <<"">>) IN
           [order |-> [arr |-> [j \in 1..Cap(s1) |->
                           IF j = i + 1 THEN id
                           ELSE IF j > i + 1 /\ j <= s1.len THEN s1.arr[j - 1]
                           ELSE s1.arr[j]],
                       len |-> s1.len],
            err |-> NoErr]
      [] pos = After ->
           IF i = s.len - 1
           THEN [order |-> append(s, <<id>>), err |-> NoErr]
           ELSE [order |-> append(Reslice(s, i + 1),
                                  Val(append(SliceOf(<<id>>),
                                             SubSeq(s.arr, i + 2, s.len)))),
                 err |-> NoErr]
      [] OTHER -> [order |-> s, err |-> ErrPosition]

\* Add without the duplicate check.
relativeOrder_Add_NoDupCheck(s, id, pos) ==
    CASE pos = Before -> relativeOrder_insert(s, 0, id, Before)
      [] pos = After -> [order |-> append(s, <<id>>), err |-> NoErr]
      [] OTHER -> [order |-> s, err |-> ErrPosition]

relativeOrder_Add(s, id, pos) ==
    IF has(s, id).found THEN [order |-> s, err |-> ErrExists]
    ELSE CASE pos = Before -> relativeOrder_insert(s, 0, id, Before)
           [] pos = After -> [order |-> append(s, <<id>>), err |-> NoErr]
           [] OTHER -> [order |-> s, err |-> ErrPosition]

relativeOrder_Insert(s, id, relativeTo, pos) ==
    IF has(s, id).found THEN [order |-> s, err |-> ErrExists]
    ELSE IF ~has(s, relativeTo).found THEN [order |-> s, err |-> ErrNotFound]
    ELSE relativeOrder_insert(s, has(s, relativeTo).i, id, pos)

\* Swap that removes the old id and appends the new one.
relativeOrder_Swap_Append(s, id, to) ==
    LET h == has(s, id) IN
    IF ~h.found THEN [order |-> s, err |-> ErrNotFound]
    ELSE IF has(s, to).found /\ id # to THEN [order |-> s, err |-> ErrExists]
    ELSE [order |-> append(append(Reslice(s, h.i), SubSeq(s.arr, h.i + 2, s.len)),
                           <<to>>),
          err |-> NoErr]

relativeOrder_Swap(s, id, to) ==
    LET h == has(s, id) IN
    IF ~h.found THEN [order |-> s, err |-> ErrNotFound]
    ELSE IF has(s, to).found /\ id # to THEN [order |-> s, err |-> ErrExists]
    ELSE [order |-> [arr |-> [s.arr EXCEPT ![h.i + 1] = to], len |-> s.len],
          err |-> NoErr]

\* Remove that fills the gap with the last id.
relativeOrder_Remove_SwapLast(s, id) ==
    LET h == has(s, id) IN
    IF ~h.found THEN [order |-> s, err |-> ErrNotFound]
    ELSE [order |-> [arr |-> [s.arr EXCEPT ![h.i + 1] = s.arr[s.len]], len |-> s.len - 1],
          err |-> NoErr]

relativeOrder_Remove(s, id) ==
    LET h == has(s, id) IN
    IF ~h.found THEN [order |-> s, err |-> ErrNotFound]
    ELSE [order |-> append(Reslice(s, h.i), SubSeq(s.arr, h.i + 2, s.len)),
          err |-> NoErr]

\* List returns the slice itself.
relativeOrder_List(s) == s

relativeOrder_Clear(s) == Reslice(s, 0)

\* -------------------------------------------------------------- orderedIDs
\* g is an orderedIDs value: [order |-> slice, items |-> map, slots |-> set].

newOrderedIDs == [order |-> NilSlice, items |-> <<>>, slots |-> {}]

\* m[k] = v on a map, and delete(m, k)
MapPut(m, k, v) == [x \in (DOMAIN m) \cup {k} |-> IF x = k THEN v ELSE m[x]]
MapDelete(m, k) == [x \in (DOMAIN m) \ {k} |-> m[x]]

IsSlot(g, id) == id \in g.slots

\* Add that goes to the order for a slot id as for any other id.
orderedIDs_Add_IgnoreSlot(g, m, pos) ==
    IF Len(m.id) = 0 THEN [g |-> g, err |-> ErrEmptyID]
    ELSE LET r == relativeOrder_Add(g.order, m.id, pos) IN
         IF r.err # NoErr THEN [g |-> g, err |-> r.err]
         ELSE [g |-> [g EXCEPT !.order = r.order, !.items = MapPut(g.items, m.id, m)],
               err |-> NoErr]

\* Add that takes a slot for full once it holds an item.
orderedIDs_Add_SlotOnce(g, m, pos) ==
    IF Len(m.id) = 0 THEN [g |-> g, err |-> ErrEmptyID]
    ELSE IF ~IsSlot(g, m.id)
    THEN LET r == relativeOrder_Add(g.order, m.id, pos) IN
         IF r.err # NoErr THEN [g |-> g, err |-> r.err]
         ELSE [g |-> [g EXCEPT !.order = r.order, !.items = MapPut(g.items, m.id, m)],
               err |-> NoErr]
    ELSE IF m.id \in DOMAIN g.items THEN [g |-> g, err |-> ErrExists]
    ELSE [g |-> [g EXCEPT !.items = MapPut(g.items, m.id, m)], err |-> NoErr]

orderedIDs_Add(g, m, pos) ==
    IF Len(m.id) = 0 THEN [g |-> g, err |-> ErrEmptyID]
    ELSE IF ~IsSlot(g, m.id)
    THEN LET r == relativeOrder_Add(g.order, m.id, pos) IN
         IF r.err # NoErr THEN [g |-> g, err |-> r.err]
         ELSE [g |-> [g EXCEPT !.order = r.order, !.items = MapPut(g.items, m.id, m)],
               err |-> NoErr]
    ELSE [g |-> [g EXCEPT !.items = MapPut(g.items, m.id, m)], err |-> NoErr]

\* AddSlot that records the slot before the order has accepted the id.
orderedIDs_AddSlot_MarkFirst(g, id, pos) ==
    IF Len(id) = 0 THEN [g |-> g, err |-> ErrEmptyID]
    ELSE LET r == relativeOrder_Add(g.order, id, pos) IN
         [g |-> [g EXCEPT !.order = r.order, !.slots = g.slots \cup {id}],
          err |-> r.err]

orderedIDs_AddSlot(g, id, pos) ==
    IF Len(id) = 0 THEN [g |-> g, err |-> ErrEmptyID]
    ELSE LET r == relativeOrder_Add(g.order, id, pos) IN
         IF r.err # NoErr THEN [g |-> g, err |-> r.err]
         ELSE [g |-> [g EXCEPT !.order = r.order, !.slots = g.slots \cup {id}],
               err |-> NoErr]

\* Insert that binds the item before the order has accepted the id.
orderedIDs_Insert_BindFirst(g, m, relativeTo, pos) ==
    IF Len(m.id) = 0 THEN [g |-> g, err |-> ErrEmptyID]
    ELSE IF Len(relativeTo) = 0 THEN [g |-> g, err |-> ErrEmptyID]
    ELSE LET r == relativeOrder_Insert(g.order, m.id, relativeTo, pos) IN
         [g |-> [g EXCEPT !.order = r.order, !.items = MapPut(g.items, m.id, m)],
          err |-> r.err]

\* Insert that binds the item to a slot of its id, as Add does.
orderedIDs_Insert_FillSlot(g, m, relativeTo, pos) ==
    IF Len(m.id) = 0 THEN [g |-> g, err |-> ErrEmptyID]
    ELSE IF Len(relativeTo) = 0 THEN [g |-> g, err |-> ErrEmptyID]
    ELSE IF IsSlot(g, m.id)
    THEN [g |-> [g EXCEPT !.items = MapPut(g.items, m.id, m)], err |-> NoErr]
    ELSE LET r == relativeOrder_Insert(g.order, m.id, relativeTo, pos) IN
         IF r.err # NoErr THEN [g |-> g, err |-> r.err]
         ELSE [g |-> [g EXCEPT !.order = r.order, !.items = MapPut(g.items, m.id, m)],
               err |-> NoErr]

orderedIDs_Insert(g, m, relativeTo, pos) ==
    IF Len(m.id) = 0 THEN [g |-> g, err |-> ErrEmptyID]
    ELSE IF Len(relativeTo) = 0 THEN [g |-> g, err |-> ErrEmptyID]
    ELSE LET r == relativeOrder_Insert(g.order, m.id, relativeTo, pos) IN
         IF r.err # NoErr THEN [g |-> g, err |-> r.err]
         ELSE [g |-> [g EXCEPT !.order = r.order, !.items = MapPut(g.items, m.id, m)],
               err |-> NoErr]

orderedIDs_InsertSlot(g, id, relativeTo, pos) ==
    IF Len(id) = 0 THEN [g |-> g, err |-> ErrEmptyID]
    ELSE IF Len(relativeTo) = 0 THEN [g |-> g, err |-> ErrEmptyID]
    ELSE LET r == relativeOrder_Insert(g.order, id, relativeTo, pos) IN
         IF r.err # NoErr THEN [g |-> g, err |-> r.err]
         ELSE [g |-> [g EXCEPT !.order = r.order, !.slots = g.slots \cup {id}],
               err |-> NoErr]

\* Get that answers for a slot that holds nothing with a placeholder.
orderedIDs_Get_SlotPlaceholder(g, id) ==
    IF id \in DOMAIN g.items THEN [v |-> g.items[id], ok |-> TRUE]
    ELSE IF id \in g.slots THEN [v |-> [id |-> id, v |-> 0], ok |-> TRUE]
    ELSE [v |-> NilMw, ok |-> FALSE]

\* Get: (v, ok)
orderedIDs_Get(g, id) ==
    IF id \in DOMAIN g.items THEN [v |-> g.items[id], ok |-> TRUE]
    ELSE [v |-> NilMw, ok |-> FALSE]

\* Swap that leaves the item bound to id in the map.
orderedIDs_Swap_KeepOld(g, id, m) ==
    IF Len(id) = 0 THEN [g |-> g, removed |-> NilMw, err |-> ErrEmptyID]
    ELSE IF Len(m.id) = 0 THEN [g |-> g, removed |-> NilMw, err |-> ErrEmptyID]
    ELSE IF IsSlot(g, id) /\ id # m.id
    THEN [g |-> g, removed |-> NilMw, err |-> ErrSlotMatch]
    ELSE LET r == relativeOrder_Swap(g.order, id, m.id) IN
         IF r.err # NoErr THEN [g |-> g, removed |-> NilMw, err |-> r.err]
         ELSE [g |-> [g EXCEPT !.order = r.order, !.items = MapPut(g.items, m.id, m)],
               removed |-> IF id \in DOMAIN g.items THEN g.items[id] ELSE NilMw,
               err |-> NoErr]

\* Swap: (removed, err); removed is nil when no item was bound to id.
orderedIDs_Swap(g, id, m) ==
    IF Len(id) = 0 THEN [g |-> g, removed |-> NilMw, err |-> ErrEmptyID]
    ELSE IF Len(m.id) = 0 THEN [g |-> g, removed |-> NilMw, err |-> ErrEmptyID]
    ELSE IF IsSlot(g, id) /\ id # m.id
    THEN [g |-> g, removed |-> NilMw, err |-> ErrSlotMatch]
    ELSE LET r == relativeOrder_Swap(g.order, id, m.id) IN
         IF r.err # NoErr THEN [g |-> g, removed |-> NilMw, err |-> r.err]
         ELSE [g |-> [g EXCEPT !.order = r.order,
                               !.items = MapPut(MapDelete(g.items, id), m.id, m)],
               removed |-> orderedIDs_Get(g, id).v,
               err |-> NoErr]

\* Remove that takes a slot's item and forgets that the id is a slot.
orderedIDs_Remove_DropSlot(g, id) ==
    IF Len(id) = 0 THEN [g |-> g, err |-> ErrEmptyID]
    ELSE IF ~IsSlot(g, id)
    THEN LET r == relativeOrder_Remove(g.order, id) IN
         IF r.err # NoErr THEN [g |-> g, err |-> r.err]
         ELSE [g |-> [g EXCEPT !.order = r.order, !.items = MapDelete(g.items, id)],
               err |-> NoErr]
    ELSE [g |-> [g EXCEPT !.items = MapDelete(g.items, id), !.slots = g.slots \ {id}],
          err |-> NoErr]

\* Remove that takes the id out of the order and leaves its item bound.
orderedIDs_Remove_KeepItem(g, id) ==
    IF Len(id) = 0 THEN [g |-> g, err |-> ErrEmptyID]
    ELSE IF ~IsSlot(g, id)
    THEN LET r == relativeOrder_Remove(g.order, id) IN
         IF r.err # NoErr THEN [g |-> g, err |-> r.err]
         ELSE [g |-> [g EXCEPT !.order = r.order], err |-> NoErr]
    ELSE [g |-> g, err |-> NoErr]

\* Remove that takes a slot id out of the order like any other id.
orderedIDs_Remove_Vacate(g, id) ==
    IF Len(id) = 0 THEN [g |-> g, err |-> ErrEmptyID]
    ELSE LET r == relativeOrder_Remove(g.order, id) IN
         IF r.err # NoErr THEN [g |-> g, err |-> r.err]
         ELSE [g |-> [g EXCEPT !.order = r.order, !.items = MapDelete(g.items, id),
                               !.slots = g.slots \ {id}],
               err |-> NoErr]

orderedIDs_Remove(g, id) ==
    IF Len(id) = 0 THEN [g |-> g, err |-> ErrEmptyID]
    ELSE IF ~IsSlot(g, id)
    THEN LET r == relativeOrder_Remove(g.order, id) IN
         IF r.err # NoErr THEN [g |-> g, err |-> r.err]
         ELSE [g |-> [g EXCEPT !.order = r.order, !.items = MapDelete(g.items, id)],
               err |-> NoErr]
    ELSE [g |-> [g EXCEPT !.items = MapDelete(g.items, id)], err |-> NoErr]

\* List: a copy of the order's elements in a fresh array.
orderedIDs_List(g) == SliceOf(Val(relativeOrder_List(g.order)))

\* Clear that keeps the slots.
orderedIDs_Clear_KeepSlots(g) ==
    [order |-> relativeOrder_Clear(g.order), items |-> <<>>, slots |-> g.slots]

orderedIDs_Clear(g) ==
    [order |-> relativeOrder_Clear(g.order), items |-> <<>>, slots |-> {}]

\* GetOrder: the loop over the order from index i on, appending bound items.
RECURSIVE GetOrderFrom(_, _, _)
GetOrderFrom(g, i, ordered) ==
    IF i >= g.order.len THEN ordered
    ELSE IF g.order.arr[i + 1] \in DOMAIN g.items
         THEN GetOrderFrom(g, i + 1, Append(ordered, g.items[g.order.arr[i + 1]]))
         ELSE GetOrderFrom(g, i + 1, ordered)

\* GetOrder that hands out the items of slots behind all others.
orderedIDs_GetOrder_SlotsLast(g) ==
    SelectSeq(GetOrderFrom(g, 0, <<>>), LAMBDA m : m.id \notin g.slots)
        \o SelectSeq(GetOrderFrom(g, 0, <<>>), LAMBDA m : m.id \in g.slots)

orderedIDs_GetOrder(g) == GetOrderFrom(g, 0, <<>>)


\* ---------------------------------------------------------- handler chain

\* A middleware calls its next handler at most this often in one invocation.
MaxNextCalls == 2

\* Handlers invoked in one request (middleware and the terminal handler).
MaxTrace == 5

\* An interface{} value: its dynamic type and its value; Nil is the nil interface.
Iface(type, value) == [type |-> type, value |-> value]
Nil == Iface("nil", "nil")

ZeroMetadata == "Metadata{}"

\* What the terminal handler (HandleMiddleware's next) may return.
NextResults == [out : {Nil, Iface("Response", "response")},
                metadata : {"Metadata{next}"},
                err : {NoErr, "next failed"}]

\* DeserializeOutput{RawResponse, Result}
DeserializeOutput(raw, result) == [RawResponse |-> raw, Result |-> result]

\* deserializeWrapHandler{Next: next}
deserializeWrapHandler == [type |-> "deserializeWrapHandler", Next |-> "next"]

\* decoratedDeserializeHandler{Next: h, With: m}
decoratedDeserializeHandler(h, m) ==
    [type |-> "decoratedDeserializeHandler", Next |-> h, With |-> m]

\* The adapter handing the response on as the Result as well.
deserializeWrapHandler_HandleDeserialize_AsResult(r) ==
    [out |-> DeserializeOutput(r.out, r.out), metadata |-> r.metadata, err |-> r.err]

\* deserializeWrapHandler.HandleDeserialize, given what w.Next.Handle returned
deserializeWrapHandler_HandleDeserialize(r) ==
    [out |-> DeserializeOutput(r.out, Nil), metadata |-> r.metadata, err |-> r.err]

\* The decorating loop run from index 0 upwards.
RECURSIVE DecorateForward(_, _, _)
DecorateForward(order, i, h) ==
    IF i >= Len(order) THEN h
    ELSE DecorateForward(order, i + 1, decoratedDeserializeHandler(h, order[i + 1]))

\* The decorating loop of HandleMiddleware: for i := len(order)-1; i >= 0; i--
RECURSIVE DecorateFrom(_, _, _)
DecorateFrom(order, i, h) ==
    IF i < 0 THEN h
    ELSE DecorateFrom(order, i - 1, decoratedDeserializeHandler(h, order[i + 1]))

\* The chain decorated from the first middleware to the last.
BuildChain_Forward(order) == DecorateForward(order, 0, deserializeWrapHandler)

BuildChain(order) == DecorateFrom(order, Len(order) - 1, deserializeWrapHandler)

\* HandleMiddleware's return statement handing back the raw response.
HandleMiddleware_Return_Raw(res) ==
    [out |-> res.out.RawResponse, metadata |-> res.metadata, err |-> res.err]

\* HandleMiddleware's return statement: res.Result, metadata, err
HandleMiddleware_Return(res) ==
    [out |-> res.out.Result, metadata |-> res.metadata, err |-> res.err]

\* What a middleware may return, having got `got` from its next handler
\* (NoResult when it has not called it).
NoResult == [out |-> DeserializeOutput(Nil, Nil), metadata |-> ZeroMetadata, err |-> "none"]

MiddlewareResults(got) ==
    {[out |-> DeserializeOutput(Nil, Nil), metadata |-> ZeroMetadata, err |-> "middleware failed"],
     [out |-> DeserializeOutput(Nil, Iface("Result", "cached")), metadata |-> ZeroMetadata, err |-> NoErr]}
    \cup (IF got = NoResult THEN {}
          ELSE {got,
                [got EXCEPT !.out = DeserializeOutput(got.out.RawResponse, Iface("Result", "result"))]})

\* ------------------------------------------------------------ waiter values
\* The Go code that codegen's Waiters integration writes for a waitable
\* operation: the <Waiter>StateRetryable function and the Wait method.
\* Durations are whole seconds.

\* Errors of Wait and of the state evaluator (the class of the message).
ErrMaxWaitTimeZero == "maximum wait time for waiter must be greater than zero"
ErrExceededMaxWait == "exceeded maximum wait time for waiter"
ErrAfterLoop == "exceeded max wait time for waiter"
ErrComputeDelay == "error computing waiter delay"
ErrCancelled == "request cancelled while waiting"
ErrEvaluating == "error evaluating waiter state"
ErrExpectedString == "waiter comparator expected string value"
ErrExpectedBool == "waiter comparator expected bool value"
ErrExpectedList == "waiter comparator expected []string value"
ErrParseBool == "error parsing boolean from string"
ErrNotAPIError == "expected err to be of type smithy.APIError"
ErrFailureState == "waiter state transitioned to Failure"

\* A value jmespath.Search yields: its dynamic type and, by type, its content.
PathValue(type, s, b, l) == [type |-> type, s |-> s, b |-> b, l |-> l]
NilValue == PathValue("nil", "", FALSE, <<>>)
StringValue(s) == PathValue("string", s, FALSE, <<>>)
BoolValue(b) == PathValue("bool", "", b, <<>>)
ListValue(l) == PathValue("[]string", "", FALSE, l)

\* A path expression: the field it names, and whether it compiles.
Path(field) == [field |-> field, valid |-> TRUE]
BadPath == [field |-> "", valid |-> FALSE]

\* jmespath.Search(path, data): the field's value, nil when data has no such
\* field, an error when the expression does not compile.
Search(path, data) ==
    IF ~path.valid THEN [value |-> NilValue, err |-> "SyntaxError"]
    ELSE IF path.field \in DOMAIN data THEN [value |-> data[path.field], err |-> NoErr]
    ELSE [value |-> NilValue, err |-> NoErr]

\* &struct{Input; Output}{Input: input, Output: output}
InputOutput(input, output) ==
    [k \in {"Input." \o f : f \in DOMAIN input} \cup {"Output." \o f : f \in DOMAIN output} |->
        IF \E f \in DOMAIN input : k = "Input." \o f
        THEN input[CHOOSE f \in DOMAIN input : k = "Input." \o f]
        ELSE output[CHOOSE f \in DOMAIN output : k = "Output." \o f]]

\* An error of the operation: its Go type and, when it is a smithy.APIError,
\* its ErrorCode().
OpError(type, code) == [type |-> type, code |-> code]
NilError == OpError("nil", "")

\* The error shapes the operation is modelled with (operationShape.getErrors()).
OperationErrors == {"NotFound"}

\* The Go error types that implement smithy.APIError.
APIErrorTypes == OperationErrors \cup {"GenericAPIError"}

\* String.equalsIgnoreCase on the names in use.
ToLower(s) == IF s = "NotFound" THEN "notfound" ELSE s
EqualsIgnoreCase(x, y) == ToLower(x) = ToLower(y)

\* strconv.ParseBool
ParseBool(str) ==
    IF str \in {"1", "t", "T", "TRUE", "true", "True"} THEN [value |-> TRUE, err |-> NoErr]
    ELSE IF str \in {"0", "f", "F", "FALSE", "false", "False"} THEN [value |-> FALSE, err |-> NoErr]
    ELSE [value |-> FALSE, err |-> "invalid syntax"]

\* An acceptor of the waiter's model.  matcher: "output", "inputOutput",
\* "success" or "errorType"; state: "success", "failure" or "retry".
OutputAcceptor(matcher, path, comparator, expected, state) ==
    [matcher |-> matcher, path |-> path, comparator |-> comparator,
     expected |-> expected, errorType |-> "", state |-> state]
SuccessAcceptor(state) ==
    [matcher |-> "success", path |-> BadPath, comparator |-> "", expected |-> "",
     errorType |-> "", state |-> state]
ErrorTypeAcceptor(errorType, state) ==
    [matcher |-> "errorType", path |-> BadPath, comparator |-> "", expected |-> "",
     errorType |-> errorType, state |-> state]

\* ---------------------------------------------------------- StateRetryable
\* What one acceptor's block of the generated function does: it returns
\* (retry, err), or control falls through to the next block.

Return(retry, err) == [returns |-> TRUE, retry |-> retry, err |-> err]
FallThrough == [returns |-> FALSE, retry |-> FALSE, err |-> NoErr]

\* A matched Retry acceptor answered as a matched Success acceptor.
writeMatchedAcceptorReturn_RetryStops(acceptor) ==
    CASE acceptor.state = "success" -> Return(FALSE, NoErr)
      [] acceptor.state = "failure" -> Return(FALSE, ErrFailureState)
      [] acceptor.state = "retry" -> Return(FALSE, NoErr)

writeMatchedAcceptorReturn(acceptor) ==
    CASE acceptor.state = "success" -> Return(FALSE, NoErr)
      [] acceptor.state = "failure" -> Return(FALSE, ErrFailureState)
      [] acceptor.state = "retry" -> Return(TRUE, NoErr)

\* The ALL_STRING_EQUALS loop: match after the elements from i on.
RECURSIVE AllStringEqualsFrom(_, _, _, _)
AllStringEqualsFrom(listOfValues, i, expected, match) ==
    IF i > Len(listOfValues) THEN match
    ELSE AllStringEqualsFrom(listOfValues, i + 1, expected,
                             IF listOfValues[i] # expected THEN FALSE ELSE match)

\* ALL_STRING_EQUALS without the test of the list's length.
AllStringEquals_NoLengthTest(listOfValues, expected) ==
    AllStringEqualsFrom(listOfValues, 1, expected, TRUE)

AllStringEquals(listOfValues, expected) ==
    AllStringEqualsFrom(listOfValues, 1, expected,
                        IF Len(listOfValues) = 0 THEN FALSE ELSE TRUE)

\* The ANY_STRING_EQUALS loop: returns at the first equal element.
RECURSIVE AnyStringEqualsFrom(_, _, _)
AnyStringEqualsFrom(acceptor, listOfValues, i) ==
    IF i > Len(listOfValues) THEN FallThrough
    ELSE IF listOfValues[i] = acceptor.expected THEN writeMatchedAcceptorReturn(acceptor)
    ELSE AnyStringEqualsFrom(acceptor, listOfValues, i + 1)

\* The comparators with a value of another type taken as no match.
writeWaiterComparator_Lenient(acceptor, actual) ==
    CASE acceptor.comparator = "stringEquals" ->
           IF actual.type = "string" /\ actual.s = acceptor.expected
           THEN writeMatchedAcceptorReturn(acceptor)
           ELSE FallThrough
      [] acceptor.comparator = "booleanEquals" ->
           LET bv == ParseBool(acceptor.expected) IN
           IF bv.err = NoErr /\ actual.type = "bool" /\ actual.b = bv.value
           THEN writeMatchedAcceptorReturn(acceptor)
           ELSE FallThrough
      [] acceptor.comparator = "allStringEquals" ->
           IF actual.type = "[]string" /\ AllStringEquals(actual.l, acceptor.expected)
           THEN writeMatchedAcceptorReturn(acceptor)
           ELSE FallThrough
      [] acceptor.comparator = "anyStringEquals" ->
           IF actual.type # "[]string" THEN FallThrough
           ELSE AnyStringEqualsFrom(acceptor, actual.l, 1)

writeWaiterComparator(acceptor, actual) ==
    CASE acceptor.comparator = "stringEquals" ->
           IF actual.type # "string" THEN Return(FALSE, ErrExpectedString)
           ELSE IF actual.s = acceptor.expected THEN writeMatchedAcceptorReturn(acceptor)
           ELSE FallThrough
      [] acceptor.comparator = "booleanEquals" ->
           LET bv == ParseBool(acceptor.expected) IN
           IF bv.err # NoErr THEN Return(FALSE, ErrParseBool)
           ELSE IF actual.type # "bool" THEN Return(FALSE, ErrExpectedBool)
           ELSE IF actual.b = bv.value THEN writeMatchedAcceptorReturn(acceptor)
           ELSE FallThrough
      [] acceptor.comparator = "allStringEquals" ->
           IF actual.type # "[]string" THEN Return(FALSE, ErrExpectedList)
           ELSE IF AllStringEquals(actual.l, acceptor.expected)
           THEN writeMatchedAcceptorReturn(acceptor)
           ELSE FallThrough
      [] acceptor.comparator = "anyStringEquals" ->
           IF actual.type # "[]string" THEN Return(FALSE, ErrExpectedList)
           ELSE AnyStringEqualsFrom(acceptor, actual.l, 1)

\* The errorType block that passes over an error that is no API error.
ErrorTypeBlock_Tolerant(acceptor, err) ==
    IF \E shape \in OperationErrors : EqualsIgnoreCase(shape, acceptor.errorType)
    THEN LET shape == CHOOSE s \in OperationErrors : EqualsIgnoreCase(s, acceptor.errorType) IN
         IF err.type = shape THEN writeMatchedAcceptorReturn(acceptor) ELSE FallThrough
    ELSE IF err.type \notin APIErrorTypes THEN FallThrough
    ELSE IF acceptor.errorType = err.code THEN writeMatchedAcceptorReturn(acceptor)
    ELSE FallThrough

\* The block of an errorType acceptor, entered with err != nil.
ErrorTypeBlock(acceptor, err) ==
    IF \E shape \in OperationErrors : EqualsIgnoreCase(shape, acceptor.errorType)
    THEN LET shape == CHOOSE s \in OperationErrors : EqualsIgnoreCase(s, acceptor.errorType) IN
         IF err.type = shape THEN writeMatchedAcceptorReturn(acceptor) ELSE FallThrough
    ELSE IF err.type \notin APIErrorTypes THEN Return(FALSE, ErrNotAPIError)
    ELSE IF acceptor.errorType = err.code THEN writeMatchedAcceptorReturn(acceptor)
    ELSE FallThrough

\* The blocks of the path matchers written without `if err == nil`.
AcceptorBlock_Ungated(acceptor, input, output, err) ==
    CASE acceptor.matcher = "output" ->
           LET found == Search(acceptor.path, output) IN
           IF found.err # NoErr THEN Return(FALSE, ErrEvaluating)
           ELSE writeWaiterComparator(acceptor, found.value)
      [] acceptor.matcher = "inputOutput" ->
           LET found == Search(acceptor.path, InputOutput(input, output)) IN
           IF found.err # NoErr THEN Return(FALSE, ErrEvaluating)
           ELSE writeWaiterComparator(acceptor, found.value)
      [] acceptor.matcher = "success" ->
           IF err = NilError THEN writeMatchedAcceptorReturn(acceptor) ELSE FallThrough
      [] acceptor.matcher = "errorType" ->
           IF err # NilError THEN ErrorTypeBlock(acceptor, err) ELSE FallThrough

AcceptorBlock(acceptor, input, output, err) ==
    CASE acceptor.matcher = "output" ->
           IF err = NilError
           THEN LET found == Search(acceptor.path, output) IN
                IF found.err # NoErr THEN Return(FALSE, ErrEvaluating)
                ELSE writeWaiterComparator(acceptor, found.value)
           ELSE FallThrough
      [] acceptor.matcher = "inputOutput" ->
           IF err = NilError
           THEN LET found == Search(acceptor.path, InputOutput(input, output)) IN
                IF found.err # NoErr THEN Return(FALSE, ErrEvaluating)
                ELSE writeWaiterComparator(acceptor, found.value)
           ELSE FallThrough
      [] acceptor.matcher = "success" ->
           IF err = NilError THEN writeMatchedAcceptorReturn(acceptor) ELSE FallThrough
      [] acceptor.matcher = "errorType" ->
           IF err # NilError THEN ErrorTypeBlock(acceptor, err) ELSE FallThrough

Verdict(retry, err) == [retry |-> retry, err |-> err]

\* The blocks from the i-th on, then the closing `return true, nil`.
RECURSIVE RetryableFrom(_, _, _, _, _)
RetryableFrom(acceptors, i, input, output, err) ==
    IF i > Len(acceptors) THEN Verdict(TRUE, NoErr)
    ELSE LET block == AcceptorBlock(acceptors[i], input, output, err) IN
         IF block.returns THEN Verdict(block.retry, block.err)
         ELSE RetryableFrom(acceptors, i + 1, input, output, err)

\* The blocks written last acceptor first.
RECURSIVE RetryableBack(_, _, _, _, _)
RetryableBack(acceptors, i, input, output, err) ==
    IF i < 1 THEN Verdict(TRUE, NoErr)
    ELSE LET block == AcceptorBlock(acceptors[i], input, output, err) IN
         IF block.returns THEN Verdict(block.retry, block.err)
         ELSE RetryableBack(acceptors, i - 1, input, output, err)

StateRetryable_LastFirst(acceptors, input, output, err) ==
    RetryableBack(acceptors, Len(acceptors), input, output, err)

\* <waiter>StateRetryable, generated from the waiter's acceptors.
StateRetryable(acceptors, input, output, err) ==
    RetryableFrom(acceptors, 1, input, output, err)

\* ------------------------------------------------------------------- state

VARIABLES
    ids,    \* DeserializeStep.ids: the step's orderedIDs
    last,   \* the last call made on the step: method, error returned, item removed
    pc,     \* "idle", or where the HandleMiddleware call is: "running", "done"
    order,  \* HandleMiddleware's local order: the GetOrder() snapshot
    stack,  \* the middleware invocations in progress, outermost first
    trace,  \* the handlers invoked for the request, in invocation order
    res,    \* what h.HandleDeserialize returned to HandleMiddleware
    ret,    \* what HandleMiddleware returned
    listed, \* the slices a caller holds from earlier List() calls
    w,      \* the waiter client: its stored options
    wpc,    \* where the Wait call is: "ready", "loop", "sleep", "call", "done"
    options,        \* Wait's local options
    maxWaitTime,    \* Wait's parameter
    attempt,        \* Wait's local attempt
    remainingTime,  \* Wait's local remainingTime
    deadline,       \* Wait's local deadline, the deadline of its derived context
    wake,           \* when the timer of the sleep in progress fires
    now,            \* the time since Wait was entered
    cancelled,      \* the caller has cancelled the context it passed to Wait
    calls,          \* operation invocations of this Wait call
    verdict,        \* what options.Retryable returned last
    wret,           \* what Wait returned
    eval,   \* a call of the state evaluator: its arguments and what it returned
    reqs    \* the HandleMiddleware calls of concurrent callers, each with its locals

regvars == <<ids, last>>
reqvars == <<pc, order, stack, trace, res, ret>>
waitvars == <<w, wpc, options, maxWaitTime, attempt, remainingTime, deadline, wake,
              now, cancelled, calls, verdict, wret>>
stepvars == <<ids, last, pc, order, stack, trace, res, ret, listed>>
vars == <<ids, last, pc, order, stack, trace, res, ret, listed,
          w, wpc, options, maxWaitTime, attempt, remainingTime, deadline, wake,
          now, cancelled, calls, verdict, wret, eval, reqs>>

Call(op, err, removed) == [op |-> op, err |-> err, removed |-> removed]

NoReturn == [out |-> Nil, metadata |-> ZeroMetadata, err |-> "none"]

\* A held List() result: the slice relativeOrder.List() returned (order; shared
\* while the registry still uses its backing array), the slice
\* orderedIDs.List() and the step's List() returned (ids), and the ids in the
\* order at the time of the call (was).
Listed(held, shared, sl, idseq, was) ==
    [held |-> held, shared |-> shared, order |-> sl, ids |-> idseq, was |-> was]

NoList == Listed(FALSE, FALSE, NilSlice, <<>>, <<>>)

\* The held slices after a call has taken relativeOrder.order from old to
\* new: an append that allocates leaves the array the caller holds behind,
\* every other write lands in it.
Retained(l, old, new) ==
    IF ~l.held \/ ~l.shared THEN l
    ELSE IF Cap(new) # Cap(old) THEN [l EXCEPT !.shared = FALSE]
    ELSE [l EXCEPT !.order = [arr |-> new.arr, len |-> l.order.len]]

\* ------------------------------------------------------ waiter: the client

\* The waiter's modelled minDelay and maxDelay, in seconds.
WaiterMinDelay == 2
WaiterMaxDelay == 120

\* <Waiter>WaiterOptions; Retryable is the state evaluator generated from
\* the acceptors given.
WaiterOptions(minDelay, maxDelay, acceptors) ==
    [MinDelay |-> minDelay, MaxDelay |-> maxDelay, LogWaitAttempts |-> FALSE,
     Retryable |-> acceptors]

\* The acceptor lists of the waiters modelled.
WaiterModels ==
    {<<ErrorTypeAcceptor("NotFound", "retry"), SuccessAcceptor("success")>>,
     <<OutputAcceptor("output", Path("p"), "stringEquals", "ready", "success"),
       OutputAcceptor("output", Path("p"), "stringEquals", "failed", "failure")>>,
     <<OutputAcceptor("inputOutput", BadPath, "stringEquals", "x", "retry"),
       SuccessAcceptor("success")>>}

\* New<Waiter>Waiter(client)
NewWaiter(acceptors) ==
    [options |-> WaiterOptions(WaiterMinDelay, WaiterMaxDelay, acceptors)]

\* A functional option: the delays it sets, or nothing.
OptFn(minDelay, maxDelay) == [set |-> TRUE, MinDelay |-> minDelay, MaxDelay |-> maxDelay]
NoOptFn == [set |-> FALSE, MinDelay |-> 0, MaxDelay |-> 0]
\* A functional option that turns the logging on and replaces Retryable.
OptFnRetryable(acceptors) ==
    [set |-> TRUE, LogWaitAttempts |-> TRUE, Retryable |-> acceptors]

OptFns == {NoOptFn, OptFn(1, 2), OptFn(0, WaiterMaxDelay),
           OptFnRetryable(<<SuccessAcceptor("success")>>)}

\* fn(&options): the fields the function assigns, the others as they are.
ApplyOptFn(fn, o) ==
    IF ~fn.set THEN o
    ELSE [MinDelay |-> IF "MinDelay" \in DOMAIN fn THEN fn.MinDelay ELSE o.MinDelay,
          MaxDelay |-> IF "MaxDelay" \in DOMAIN fn THEN fn.MaxDelay ELSE o.MaxDelay,
          LogWaitAttempts |-> IF "LogWaitAttempts" \in DOMAIN fn THEN fn.LogWaitAttempts
                              ELSE o.LogWaitAttempts,
          Retryable |-> IF "Retryable" \in DOMAIN fn THEN fn.Retryable ELSE o.Retryable]

\* The maxWaitTime arguments of the callers.
MaxWaitTimes == {0, 3, 10}

\* The operation input the callers wait on.
Params == [f \in {"q"} |-> StringValue("x")]

\* What an operation attempt returns: (out, err).
OpResult(out, err) == [out |-> out, err |-> err]
NilOutput == [f \in {} |-> NilValue]
Output(p) == [f \in {"p"} |-> p]
OpResults ==
    {OpResult(NilOutput, OpError("NotFound", "NotFound")),
     OpResult(Output(StringValue("ready")), NilError),
     OpResult(Output(StringValue("failed")), NilError),
     OpResult(Output(StringValue("pending")), NilError),
     OpResult(Output(NilValue), NilError)}

\* The longest an operation attempt takes, and the time the model follows a
\* Wait call for.
MaxOpTime == 1
MaxTime == 12

\* Attempts are counted up to MaxAttempts; the delay computed for a later
\* attempt is the delay computed for attempt MaxAttempts.
MaxAttempts == 5

Min(x, y) == IF x <= y THEN x ELSE y
Max(x, y) == IF x >= y THEN x ELSE y

RECURSIVE Pow2(_)
Pow2(n) == IF n <= 0 THEN 1 ELSE 2 * Pow2(n - 1)

\* waiter.ComputeDelay: exponential in the attempt count, at most maxDelay
\* and at most remainingTime.
ComputeDelay(minDelay, maxDelay, remaining, n) ==
    [delay |-> Min(Min(minDelay * Pow2(n - 1), maxDelay), remaining), err |-> NoErr]

\* The caller's context used as it is, without the deadline.
DoneAt_CallerOnly(isCancelled, dl, t) == IF isCancelled THEN t ELSE MaxTime + MaxTime

\* When the context Wait derives is done, seen at time t: at once when the
\* caller has cancelled or the deadline has passed, else at the deadline.
DoneAt(isCancelled, dl, t) == IF isCancelled \/ t >= dl THEN t ELSE dl

\* time.SleepWithContext(ctx, dur), entered at time t with the timer due at
\* due and the context done at doneAt: select takes the case that is ready
\* first, either case when both are.
SleepWithContext(t, due, doneAt) ==
    (IF due <= doneAt THEN {[err |-> NoErr, at |-> due]} ELSE {})
        \cup (IF doneAt <= due THEN {[err |-> "context done", at |-> doneAt]} ELSE {})

NoVerdict == [retry |-> FALSE, err |-> "none"]
NotReturned == "not returned"

\* A call of the state evaluator: (acceptors, input, output, err) and the
\* verdict returned.
Eval(acceptors, input, output, err, v) ==
    [acceptors |-> acceptors, input |-> input, output |-> output, err |-> err,
     verdict |-> v]
NoEval == Eval(<<>>, Params, NilOutput, NilError, NoVerdict)

\* Callers that run HandleMiddleware on the step at the same time.
NumRequests == 2
Requests == 1..NumRequests

\* A HandleMiddleware call of one of them: where it is and its locals.
Request(rpc, snapshot, frames, invoked, result, returned) ==
    [pc |-> rpc, order |-> snapshot, stack |-> frames, trace |-> invoked,
     res |-> result, ret |-> returned]

IdleRequest == Request("idle", <<>>, <<>>, <<>>, NoResult, NoReturn)

\* The step as NewDeserializeStep returns it, no request in progress.
StepInit ==
    /\ ids = newOrderedIDs
    /\ last = Call("none", NoErr, NilMw)
    /\ pc = "idle"
    /\ order = <<>>
    /\ stack = <<>>
    /\ trace = <<>>
    /\ res = NoResult
    /\ ret = NoReturn
    /\ listed = NoList
    /\ reqs = [r \in Requests |-> IdleRequest]

\* No Wait call made yet.
WaitInit ==
    /\ wpc = "ready"
    /\ options = w.options
    /\ maxWaitTime = 0
    /\ attempt = 0
    /\ remainingTime = 0
    /\ deadline = 0
    /\ wake = 0
    /\ now = 0
    /\ cancelled = FALSE
    /\ calls = 0
    /\ verdict = NoVerdict
    /\ wret = NotReturned

Init ==
    /\ StepInit
    /\ w = NewWaiter(<<>>)
    /\ WaitInit
    /\ eval = NoEval

\* ------------------------------------------------- DeserializeStep methods

Add(m, pos) ==
    LET r == orderedIDs_Add(ids, m, pos) IN
    /\ pc = "idle"
    /\ ids' = r.g
    /\ last' = Call("Add", r.err, NilMw)
    /\ listed' = Retained(listed, ids.order, r.g.order)
    /\ UNCHANGED <<reqvars, waitvars, eval, reqs>>

AddSlot(id, pos) ==
    LET r == orderedIDs_AddSlot(ids, id, pos) IN
    /\ pc = "idle"
    /\ ids' = r.g
    /\ last' = Call("AddSlot", r.err, NilMw)
    /\ listed' = Retained(listed, ids.order, r.g.order)
    /\ UNCHANGED <<reqvars, waitvars, eval, reqs>>

Insert(m, relativeTo, pos) ==
    LET r == orderedIDs_Insert(ids, m, relativeTo, pos) IN
    /\ pc = "idle"
    /\ ids' = r.g
    /\ last' = Call("Insert", r.err, NilMw)
    /\ listed' = Retained(listed, ids.order, r.g.order)
    /\ UNCHANGED <<reqvars, waitvars, eval, reqs>>

InsertSlot(id, relativeTo, pos) ==
    LET r == orderedIDs_InsertSlot(ids, id, relativeTo, pos) IN
    /\ pc = "idle"
    /\ ids' = r.g
    /\ last' = Call("InsertSlot", r.err, NilMw)
    /\ listed' = Retained(listed, ids.order, r.g.order)
    /\ UNCHANGED <<reqvars, waitvars, eval, reqs>>

\* Swap: removed.(DeserializeMiddleware) panics when removed is nil, after
\* orderedIDs.Swap has changed the registry.
Swap(id, m) ==
    LET r == orderedIDs_Swap(ids, id, m) IN
    /\ pc = "idle"
    /\ ids' = r.g
    /\ last' = Call("Swap",
                    IF r.err = NoErr /\ r.removed = NilMw THEN Panic ELSE r.err,
                    r.removed)
    /\ listed' = Retained(listed, ids.order, r.g.order)
    /\ UNCHANGED <<reqvars, waitvars, eval, reqs>>

Remove(id) ==
    LET r == orderedIDs_Remove(ids, id) IN
    /\ pc = "idle"
    /\ ids' = r.g
    /\ last' = Call("Remove", r.err, NilMw)
    /\ listed' = Retained(listed, ids.order, r.g.order)
    /\ UNCHANGED <<reqvars, waitvars, eval, reqs>>

Clear ==
    /\ pc = "idle"
    /\ ids' = orderedIDs_Clear(ids)
    /\ last' = Call("Clear", NoErr, NilMw)
    /\ listed' = Retained(listed, ids.order, orderedIDs_Clear(ids).order)
    /\ UNCHANGED <<reqvars, waitvars, eval, reqs>>


\* The ids of the middleware in a GetOrder() result.
IDsOf(snapshot) == [k \in 1..Len(snapshot) |-> snapshot[k].id]

\* The handler behind h in a chain built on the registry as it is now.
NextHandler_Live(h) ==
    LET now_ == orderedIDs_GetOrder(ids)
        at == {k \in 1..Len(now_) : now_[k].id = h.With.id} IN
    IF at = {} THEN deserializeWrapHandler
    ELSE BuildChain(SubSeq(now_, (CHOOSE k \in at : TRUE) + 1, Len(now_)))

\* decoratedDeserializeHandler.HandleDeserialize hands h.Next to the
\* middleware: the handler the call of next reaches.
NextHandler(h) == h.Next

\* A frame of the stack: the handler whose middleware is running, the index
\* of its invocation in trace, and what its last call of next returned.
Frame(h, ti, got) == [h |-> h, ti |-> ti, got |-> got]

Invocation(id) == [h |-> id, calls |-> 0]

\* HandleMiddleware up to the invocation of the outermost handler.  With no
\* middleware bound the outermost handler is the adapter around next, the
\* terminal handler answers and HandleMiddleware returns at once.
HandleMiddleware ==
    /\ pc = "idle"
    /\ LET snapshot == orderedIDs_GetOrder(ids)
           h == BuildChain(snapshot) IN
       /\ order' = snapshot
       /\ IF h.type = "decoratedDeserializeHandler"
          THEN /\ stack' = <<Frame(h, 1, NoResult)>>
               /\ trace' = <<Invocation(h.With.id)>>
               /\ pc' = "running"
               /\ res' = NoResult
               /\ ret' = NoReturn
          ELSE \E r \in NextResults :
               /\ stack' = <<>>
               /\ trace' = <<Invocation("next")>>
               /\ pc' = "done"
               /\ res' = deserializeWrapHandler_HandleDeserialize(r)
               /\ ret' = HandleMiddleware_Return(deserializeWrapHandler_HandleDeserialize(r))
    /\ last' = Call("HandleMiddleware", NoErr, NilMw)
    /\ UNCHANGED <<ids, listed, waitvars, eval, reqs>>

\* The running middleware calls next.HandleDeserialize: the next decorated
\* handler invokes its middleware, or the adapter calls the terminal handler.
MiddlewareCallsNext ==
    /\ pc = "running"
    /\ Len(trace) < MaxTrace
    /\ LET top == stack[Len(stack)]
           nxt == NextHandler(top.h) IN
       /\ trace[top.ti].calls < MaxNextCalls
       /\ IF nxt.type = "decoratedDeserializeHandler"
          THEN /\ stack' = Append(stack, Frame(nxt, Len(trace) + 1, NoResult))
               /\ trace' = Append([trace EXCEPT ![top.ti].calls = @ + 1],
                                  Invocation(nxt.With.id))
          ELSE \E r \in NextResults :
               /\ stack' = [stack EXCEPT ![Len(stack)].got =
                               deserializeWrapHandler_HandleDeserialize(r)]
               /\ trace' = Append([trace EXCEPT ![top.ti].calls = @ + 1],
                                  Invocation("next"))
    /\ UNCHANGED <<ids, last, pc, order, res, ret, listed, waitvars, eval, reqs>>

\* The running middleware returns: to the middleware that called it, or, from
\* the outermost handler, to HandleMiddleware, which returns in turn.
MiddlewareReturns ==
    /\ pc = "running"
    /\ LET top == stack[Len(stack)] IN
       \E r \in MiddlewareResults(top.got) :
          IF Len(stack) > 1
          THEN /\ stack' = [SubSeq(stack, 1, Len(stack) - 1)
                               EXCEPT ![Len(stack) - 1].got = r]
               /\ UNCHANGED <<pc, res, ret>>
          ELSE /\ stack' = <<>>
               /\ pc' = "done"
               /\ res' = r
               /\ ret' = HandleMiddleware_Return(r)
    /\ UNCHANGED <<ids, last, order, trace, listed, waitvars, eval, reqs>>

\* HandleMiddleware's caller is done with what it returned; the call's locals
\* are gone.
Continue ==
    /\ pc = "done"
    /\ pc' = "idle"
    /\ order' = <<>>
    /\ stack' = <<>>
    /\ trace' = <<>>
    /\ res' = NoResult
    /\ ret' = NoReturn
    /\ UNCHANGED <<ids, last, listed, waitvars, eval, reqs>>

\* ------------------------------------- a middleware that changes the step

\* A call on the step, as a middleware holding the step makes it.
StepCallOf(op, id, m, rel, pos) ==
    [op |-> op, id |-> id, m |-> m, rel |-> rel, pos |-> pos]

\* What the call does to the registry and what it returns to the middleware.
StepCall(g, c) ==
    IF c.op = "Add"
    THEN LET r == orderedIDs_Add(g, c.m, c.pos) IN
         [g |-> r.g, err |-> r.err, removed |-> NilMw]
    ELSE IF c.op = "Insert"
    THEN LET r == orderedIDs_Insert(g, c.m, c.rel, c.pos) IN
         [g |-> r.g, err |-> r.err, removed |-> NilMw]
    ELSE IF c.op = "Swap"
    THEN LET r == orderedIDs_Swap(g, c.id, c.m) IN
         [g |-> r.g,
          err |-> IF r.err = NoErr /\ r.removed = NilMw THEN Panic ELSE r.err,
          removed |-> r.removed]
    ELSE IF c.op = "Remove"
    THEN LET r == orderedIDs_Remove(g, c.id) IN
         [g |-> r.g, err |-> r.err, removed |-> NilMw]
    ELSE [g |-> orderedIDs_Clear(g), err |-> NoErr, removed |-> NilMw]

\* The running middleware calls Add, Insert, Swap, Remove or Clear on the step
\* it is part of, in the goroutine of the request.  The chain of the request
\* is a local of HandleMiddleware and no registry call touches it.  A Swap
\* that panics unwinds the request.
MiddlewareMutates(c) ==
    LET r == StepCall(ids, c) IN
    /\ pc = "running"
    /\ ids' = r.g
    /\ last' = Call(c.op, r.err, r.removed)
    /\ listed' = Retained(listed, ids.order, r.g.order)
    /\ IF r.err = Panic
       THEN /\ pc' = "idle"
            /\ order' = <<>>
            /\ stack' = <<>>
            /\ trace' = <<>>
            /\ res' = NoResult
            /\ ret' = NoReturn
       ELSE UNCHANGED reqvars
    /\ UNCHANGED <<waitvars, eval, reqs>>

\* ------------------------------------------------------ concurrent callers

\* HandleMiddleware of one caller, up to the invocation of the outermost
\* handler: the calls it can become.
Started(g) ==
    LET snapshot == orderedIDs_GetOrder(g)
        h == BuildChain(snapshot) IN
    IF h.type = "decoratedDeserializeHandler"
    THEN {Request("running", snapshot, <<Frame(h, 1, NoResult)>>,
                  <<Invocation(h.With.id)>>, NoResult, NoReturn)}
    ELSE {Request("done", snapshot, <<>>, <<Invocation("next")>>,
                  deserializeWrapHandler_HandleDeserialize(r),
                  HandleMiddleware_Return(deserializeWrapHandler_HandleDeserialize(r)))
             : r \in NextResults}

\* The running middleware of call q calls next.HandleDeserialize.
CalledNext(q) ==
    IF q.pc # "running" \/ Len(q.trace) >= MaxTrace THEN {}
    ELSE LET top == q.stack[Len(q.stack)]
             nxt == NextHandler(top.h)
             counted == [q.trace EXCEPT ![top.ti].calls = @ + 1] IN
         IF q.trace[top.ti].calls >= MaxNextCalls THEN {}
         ELSE IF nxt.type = "decoratedDeserializeHandler"
         THEN {[q EXCEPT !.stack = Append(q.stack,
                                          Frame(nxt, Len(q.trace) + 1, NoResult)),
                         !.trace = Append(counted, Invocation(nxt.With.id))]}
         ELSE {[q EXCEPT !.stack = [q.stack EXCEPT ![Len(q.stack)].got =
                                       deserializeWrapHandler_HandleDeserialize(r)],
                         !.trace = Append(counted, Invocation("next"))]
                  : r \in NextResults}

\* The running middleware of call q returns.
Returned(q) ==
    IF q.pc # "running" THEN {}
    ELSE LET top == q.stack[Len(q.stack)] IN
         IF Len(q.stack) > 1
         THEN {[q EXCEPT !.stack = [SubSeq(q.stack, 1, Len(q.stack) - 1)
                                       EXCEPT ![Len(q.stack) - 1].got = r]]
                  : r \in MiddlewareResults(top.got)}
         ELSE {[q EXCEPT !.stack = <<>>, !.pc = "done", !.res = r,
                         !.ret = HandleMiddleware_Return(r)]
                  : r \in MiddlewareResults(top.got)}

\* A HandleMiddleware that takes the middleware out of the registry as it
\* builds its chain.
ReqHandleMiddleware_Drains(c) ==
    /\ reqs[c].pc = "idle"
    /\ \E q \in Started(ids) : reqs' = [reqs EXCEPT ![c] = q]
    /\ ids' = orderedIDs_Clear(ids)
    /\ UNCHANGED <<last, listed, reqvars, waitvars, eval>>

\* Caller c calls HandleMiddleware: GetOrder() reads the registry, the chain
\* is built in the call's own locals.
ReqHandleMiddleware(c) ==
    /\ reqs[c].pc = "idle"
    /\ \E q \in Started(ids) : reqs' = [reqs EXCEPT ![c] = q]
    /\ UNCHANGED <<ids, last, listed, reqvars, waitvars, eval>>

ReqCallsNext(c) ==
    /\ \E q \in CalledNext(reqs[c]) : reqs' = [reqs EXCEPT ![c] = q]
    /\ UNCHANGED <<ids, last, listed, reqvars, waitvars, eval>>

ReqReturns(c) ==
    /\ \E q \in Returned(reqs[c]) : reqs' = [reqs EXCEPT ![c] = q]
    /\ UNCHANGED <<ids, last, listed, reqvars, waitvars, eval>>

\* The caller is done with what HandleMiddleware returned.
ReqContinue(c) ==
    /\ reqs[c].pc = "done"
    /\ reqs' = [reqs EXCEPT ![c] = IdleRequest]
    /\ UNCHANGED <<ids, last, listed, reqvars, waitvars, eval>>

\* ------------------------------------------------------------ List callers

\* A caller takes the step's List() and, inside the package, the
\* relativeOrder's List().
CallList ==
    /\ pc = "idle"
    /\ listed' = Listed(TRUE, TRUE, relativeOrder_List(ids.order),
                        Val(orderedIDs_List(ids)), Val(ids.order))
    /\ last' = Call("List", NoErr, NilMw)
    /\ UNCHANGED <<ids, reqvars, waitvars, eval, reqs>>

\* ------------------------------------------------------------ waiter: Wait

\* if maxWaitTime == 0 { fmt.Errorf(...) }: the error is built and dropped;
\* no return statement follows, so Wait never returns from this block.
MaxWaitTimeRejected(mw) == FALSE

\* Wait after options.Retryable returned v: return err, return nil, or go on.
AfterRetryable(v) ==
    IF v.err # NoErr THEN [returns |-> TRUE, err |-> v.err]
    ELSE IF ~v.retry THEN [returns |-> TRUE, err |-> NoErr]
    ELSE [returns |-> FALSE, err |-> NoErr]

\* Wait after SleepWithContext returned err.
AfterSleep_ErrorDropped(err) == [returns |-> FALSE, err |-> NoErr]

AfterSleep(err) ==
    IF err # NoErr THEN [returns |-> TRUE, err |-> ErrCancelled]
    ELSE [returns |-> FALSE, err |-> NoErr]

\* Wait with the option functions applied to the waiter's own options.
Wait_OptionsShared(mw, fn) ==
    /\ wpc \in {"ready", "done"}
    /\ maxWaitTime' = mw
    /\ options' = ApplyOptFn(fn, w.options)
    /\ attempt' = 0
    /\ remainingTime' = mw
    /\ now' = 0
    /\ deadline' = 0 + mw
    /\ wake' = 0
    /\ cancelled' = FALSE
    /\ calls' = 0
    /\ verdict' = NoVerdict
    /\ IF MaxWaitTimeRejected(mw)
       THEN wret' = ErrMaxWaitTimeZero /\ wpc' = "done"
       ELSE wret' = NotReturned /\ wpc' = "loop"
    /\ w' = [w EXCEPT !.options = ApplyOptFn(fn, w.options)]
    /\ UNCHANGED <<stepvars, eval, reqs>>

\* Wait(ctx, params, maxWaitTime, optFns...) up to the loop.
Wait(mw, fn) ==
    /\ wpc \in {"ready", "done"}
    /\ maxWaitTime' = mw
    /\ options' = ApplyOptFn(fn, w.options)
    /\ attempt' = 0
    /\ remainingTime' = mw
    /\ now' = 0
    /\ deadline' = 0 + mw
    /\ wake' = 0
    /\ cancelled' = FALSE
    /\ calls' = 0
    /\ verdict' = NoVerdict
    /\ IF MaxWaitTimeRejected(mw)
       THEN wret' = ErrMaxWaitTimeZero /\ wpc' = "done"
       ELSE wret' = NotReturned /\ wpc' = "loop"
    /\ UNCHANGED <<w, stepvars, eval, reqs>>

\* The loop head that sleeps before the first attempt as well.
LoopTop_SleepAlways ==
    /\ wpc = "loop"
    /\ IF remainingTime <= 0
       THEN /\ wret' = ErrExceededMaxWait
            /\ wpc' = "done"
            /\ UNCHANGED <<remainingTime, wake>>
       ELSE IF attempt >= 0
       THEN LET d == ComputeDelay(options.MinDelay, options.MaxDelay, remainingTime, attempt) IN
            IF d.err # NoErr
            THEN /\ wret' = ErrComputeDelay
                 /\ wpc' = "done"
                 /\ UNCHANGED <<remainingTime, wake>>
            ELSE /\ remainingTime' = remainingTime - d.delay
                 /\ wake' = now + d.delay
                 /\ wpc' = "sleep"
                 /\ UNCHANGED wret
       ELSE /\ wpc' = "call"
            /\ UNCHANGED <<remainingTime, wake, wret>>
    /\ UNCHANGED <<w, options, maxWaitTime, attempt, deadline, now, cancelled, calls,
                   verdict, stepvars, eval, reqs>>

\* The loop head that computes the delay from the whole budget.
LoopTop_DelayFromBudget ==
    /\ wpc = "loop"
    /\ IF remainingTime <= 0
       THEN /\ wret' = ErrExceededMaxWait
            /\ wpc' = "done"
            /\ UNCHANGED <<remainingTime, wake>>
       ELSE IF attempt > 0
       THEN LET d == ComputeDelay(options.MinDelay, options.MaxDelay, maxWaitTime, attempt) IN
            IF d.err # NoErr
            THEN /\ wret' = ErrComputeDelay
                 /\ wpc' = "done"
                 /\ UNCHANGED <<remainingTime, wake>>
            ELSE /\ remainingTime' = remainingTime - d.delay
                 /\ wake' = now + d.delay
                 /\ wpc' = "sleep"
                 /\ UNCHANGED wret
       ELSE /\ wpc' = "call"
            /\ UNCHANGED <<remainingTime, wake, wret>>
    /\ UNCHANGED <<w, options, maxWaitTime, attempt, deadline, now, cancelled, calls,
                   verdict, stepvars, eval, reqs>>

\* The head of an iteration: the test of remainingTime and, for a retry, the
\* delay computed and charged.
LoopTop ==
    /\ wpc = "loop"
    /\ IF remainingTime <= 0
       THEN /\ wret' = ErrExceededMaxWait
            /\ wpc' = "done"
            /\ UNCHANGED <<remainingTime, wake>>
       ELSE IF attempt > 0
       THEN LET d == ComputeDelay(options.MinDelay, options.MaxDelay, remainingTime, attempt) IN
            IF d.err # NoErr
            THEN /\ wret' = ErrComputeDelay
                 /\ wpc' = "done"
                 /\ UNCHANGED <<remainingTime, wake>>
            ELSE /\ remainingTime' = remainingTime - d.delay
                 /\ wake' = now + d.delay
                 /\ wpc' = "sleep"
                 /\ UNCHANGED wret
       ELSE /\ wpc' = "call"
            /\ UNCHANGED <<remainingTime, wake, wret>>
    /\ UNCHANGED <<w, options, maxWaitTime, attempt, deadline, now, cancelled, calls,
                   verdict, stepvars, eval, reqs>>

\* SleepWithContext returns s.err at time s.at.
SleepReturns(s) ==
    /\ wpc = "sleep"
    /\ s \in SleepWithContext(now, wake, DoneAt(cancelled, deadline, now))
    /\ now' = s.at
    /\ IF AfterSleep(s.err).returns
       THEN wret' = AfterSleep(s.err).err /\ wpc' = "done"
       ELSE wpc' = "call" /\ UNCHANGED wret
    /\ UNCHANGED <<w, options, maxWaitTime, attempt, remainingTime, deadline, wake,
                   cancelled, calls, verdict, stepvars, eval, reqs>>

SleepOutcomes == {[err |-> e, at |-> t] : e \in {NoErr, "context done"}, t \in 0..MaxTime}

Sleep == \E s \in SleepOutcomes : SleepReturns(s)

\* The caller cancels the context it passed to Wait: between two statements
\* of Wait, or at some time before the timer of the sleep in progress fires.
CallerCancels ==
    /\ wpc \in {"loop", "sleep", "call"}
    /\ ~cancelled
    /\ cancelled' = TRUE
    /\ IF wpc = "sleep"
       THEN \E t \in now..Max(now, Min(wake, deadline) - 1) : now' = t
       ELSE now' = now
    /\ UNCHANGED <<w, wpc, options, maxWaitTime, attempt, remainingTime, deadline, wake,
                   calls, verdict, wret, stepvars, eval, reqs>>

\* One attempt: the operation is invoked, takes d and returns r; the state
\* evaluator judges r and Wait acts on its verdict.
Attempt(r, d) ==
    /\ wpc = "call"
    /\ now + d <= MaxTime
    /\ now' = now + d
    /\ calls' = Min(calls + 1, MaxAttempts + 1)
    /\ LET v == StateRetryable(options.Retryable, Params, r.out, r.err) IN
       /\ verdict' = v
       /\ IF AfterRetryable(v).returns
          THEN wret' = AfterRetryable(v).err /\ wpc' = "done" /\ UNCHANGED attempt
          ELSE attempt' = Min(attempt + 1, MaxAttempts) /\ wpc' = "loop" /\ UNCHANGED wret
    /\ UNCHANGED <<w, options, maxWaitTime, remainingTime, deadline, wake, cancelled,
                   stepvars, eval, reqs>>

\* ------------------------------------------------- the evaluator on its own

\* The state evaluator is called with the arguments recorded in eval.
Evaluate ==
    /\ eval.verdict = NoVerdict
    /\ eval' = [eval EXCEPT !.verdict =
                   StateRetryable(eval.acceptors, eval.input, eval.output, eval.err)]
    /\ UNCHANGED <<stepvars, waitvars, reqs>>

\* ---------------------------------------------------------- specifications

IDArgs == IDs \cup {EmptyID}

Mutation ==
    \/ \E m \in Middlewares, pos \in Positions : Add(m, pos)
    \/ \E id \in IDArgs, pos \in Positions : AddSlot(id, pos)
    \/ \E m \in Middlewares, rel \in IDArgs, pos \in Positions : Insert(m, rel, pos)
    \/ \E id \in IDArgs, rel \in IDArgs, pos \in Positions : InsertSlot(id, rel, pos)
    \/ \E id \in IDArgs, m \in Middlewares : Swap(id, m)
    \/ \E id \in IDArgs : Remove(id)
    \/ Clear

Next == Mutation

\* The registry and its mutating calls.
Spec == Init /\ [][Next]_vars

NextChain ==
    \/ Mutation
    \/ HandleMiddleware
    \/ MiddlewareCallsNext
    \/ MiddlewareReturns
    \/ Continue

\* The step set up and serving requests, one at a time; the registry is
\* changed between requests only.
SpecChain == Init /\ [][NextChain]_vars

\* The registry with callers that keep what List() returned.
ListIDs == {"a", "b"}

ListMutation ==
    \/ \E id \in ListIDs, pos \in {After, Before} : Add([id |-> id, v |-> 1], pos)
    \/ \E id \in ListIDs : AddSlot(id, After)
    \/ \E id \in ListIDs, rel \in ListIDs, pos \in {After, Before} :
          Insert([id |-> id, v |-> 1], rel, pos)
    \/ \E id \in ListIDs, rel \in ListIDs : InsertSlot(id, rel, Before)
    \/ \E id \in ListIDs, to \in ListIDs : Swap(id, [id |-> to, v |-> 1])
    \/ \E id \in ListIDs : Remove(id)
    \/ Clear

NextList ==
    \/ ListMutation
    \/ CallList

SpecList == Init /\ [][NextList]_vars

\* A step whose middleware change the step while a request runs through them.
LiveCalls ==
    {StepCallOf("Add", EmptyID, [id |-> "c", v |-> 1], EmptyID, After),
     StepCallOf("Insert", EmptyID, [id |-> "c", v |-> 1], "b", Before),
     StepCallOf("Swap", "c", [id |-> "c", v |-> 1], EmptyID, After),
     StepCallOf("Remove", "b", NilMw, EmptyID, After),
     StepCallOf("Clear", EmptyID, NilMw, EmptyID, After)}

\* The registries a step is set up with before the requests: Add, AddSlot
\* and Remove calls made while no request runs.
SetupRegistries ==
    LET a == [id |-> "a", v |-> 1]
        b == [id |-> "b", v |-> 1]
        ga == orderedIDs_Add(newOrderedIDs, a, After).g
        gab == orderedIDs_Add(ga, b, After).g IN
    {newOrderedIDs, ga, gab, orderedIDs_AddSlot(gab, "c", Before).g,
     orderedIDs_Remove(gab, "a").g}

InitSetup ==
    /\ ids \in SetupRegistries
    /\ last = Call("none", NoErr, NilMw)
    /\ pc = "idle"
    /\ order = <<>>
    /\ stack = <<>>
    /\ trace = <<>>
    /\ res = NoResult
    /\ ret = NoReturn
    /\ listed = NoList
    /\ reqs = [r \in Requests |-> IdleRequest]
    /\ w = NewWaiter(<<>>)
    /\ WaitInit
    /\ eval = NoEval

NextLive ==
    \/ HandleMiddleware \/ MiddlewareCallsNext \/ MiddlewareReturns \/ Continue
    \/ \E c \in LiveCalls : MiddlewareMutates(c)

SpecLive == InitSetup /\ [][NextLive]_vars

\* Callers that run HandleMiddleware at the same time on a step that no one
\* changes.
NextConc ==
    \E c \in Requests :
       ReqHandleMiddleware(c) \/ ReqCallsNext(c) \/ ReqReturns(c) \/ ReqContinue(c)

SpecConc == InitSetup /\ [][NextConc]_vars

\* A waiter client and the Wait calls made on it, one at a time.
InitWait ==
    /\ StepInit
    /\ w \in {NewWaiter(acceptors) : acceptors \in WaiterModels}
    /\ WaitInit
    /\ eval = NoEval

NextWait ==
    \/ \E mw \in MaxWaitTimes, fn \in OptFns : Wait(mw, fn)
    \/ LoopTop
    \/ Sleep
    \/ CallerCancels
    \/ \E r \in OpResults, d \in 0..MaxOpTime : Attempt(r, d)

SpecWait == InitWait /\ [][NextWait]_vars

\* The sleep ends because the context is done.
SleepInterrupted == \E s \in SleepOutcomes : s.err # NoErr /\ SleepReturns(s)

\* An attempt that takes time.
AttemptTakesTime == \E r \in OpResults, d \in 1..MaxOpTime : Attempt(r, d)

\* Wait runs: its goroutine is scheduled, its timers fire and the operation
\* returns (weak fairness of its steps).  Time passes: attempts do not take
\* no time for ever.  select chooses at random among the cases that are
\* ready, so a case that is ready again and again is taken (strong fairness).
SpecWaitFair ==
    /\ InitWait
    /\ [][NextWait]_vars
    /\ WF_vars(LoopTop)
    /\ WF_vars(Sleep)
    /\ WF_vars(\E r \in OpResults, d \in 0..MaxOpTime : Attempt(r, d))
    /\ SF_vars(AttemptTakesTime)
    /\ SF_vars(SleepInterrupted)

\* The acceptors a waiter is modelled with, and the lists of at most
\* MaxAcceptors of them.
MaxAcceptors == 2

Acceptors ==
    {OutputAcceptor("output", Path("p"), "stringEquals", "ready", "success"),
     OutputAcceptor("output", Path("p"), "allStringEquals", "ready", "success"),
     OutputAcceptor("output", Path("p"), "anyStringEquals", "ready", "failure"),
     OutputAcceptor("output", Path("p"), "booleanEquals", "true", "retry"),
     OutputAcceptor("output", Path("p"), "booleanEquals", "maybe", "success"),
     OutputAcceptor("output", BadPath, "stringEquals", "ready", "success"),
     OutputAcceptor("inputOutput", Path("Output.p"), "stringEquals", "ready", "retry"),
     OutputAcceptor("inputOutput", Path("Input.q"), "stringEquals", "x", "failure"),
     SuccessAcceptor("success"),
     SuccessAcceptor("retry"),
     ErrorTypeAcceptor("notfound", "retry"),
     ErrorTypeAcceptor("Throttled", "failure"),
     ErrorTypeAcceptor("Throttled", "success")}

AcceptorLists == UNION {[1..n -> Acceptors] : n \in 0..MaxAcceptors}

\* The results of the operation the evaluator is called with.
EvalResults ==
    {OpResult(Output(p), NilError) :
        p \in {StringValue("ready"), StringValue("pending"), BoolValue(TRUE), BoolValue(FALSE),
               ListValue(<<>>), ListValue(<<"ready">>), ListValue(<<"ready", "ready">>),
               ListValue(<<"ready", "pending">>), ListValue(<<"pending", "ready">>), NilValue}}
        \cup {OpResult(NilOutput, e) :
                e \in {OpError("NotFound", "NotFound"), OpError("GenericAPIError", "Throttled"),
                       OpError("GenericAPIError", "Unknown"), OpError("net.OpError", "")}}

InitEval ==
    /\ StepInit
    /\ w = NewWaiter(<<>>)
    /\ WaitInit
    /\ eval \in {Eval(acceptors, Params, r.out, r.err, NoVerdict) :
                    acceptors \in AcceptorLists, r \in EvalResults}

NextEval == Evaluate

\* The state evaluator, called once on each input.
SpecEval == InitEval /\ [][NextEval]_vars

\* ------------------------------------------------------------ observations

\* What List(), GetOrder() and Get(id) answer on the registry g.
ListOf(g) == Val(orderedIDs_List(g))
GetOrderOf(g) == orderedIDs_GetOrder(g)
GetOf(g, id) == orderedIDs_Get(g, id)

List == ListOf(ids)
GetOrder == GetOrderOf(ids)

Elems(seq) == {seq[k] : k \in 1..Len(seq)}

\* The index (from 1) of x in seq, 0 when x is not in it.
IndexOf(seq, x) ==
    IF x \in Elems(seq) THEN CHOOSE k \in 1..Len(seq) : seq[k] = x ELSE 0

\* seq with x put behind its first k elements.
InsertBehind(seq, k, x) == SubSeq(seq, 1, k) \o <<x>> \o SubSeq(seq, k + 1, Len(seq))

\* seq without x; the other elements keep their order.
Without(seq, x) == SelectSeq(seq, LAMBDA y : y # x)

\* List(), GetOrder() and Get(id) for every id answer after the step as before.
SameAnswers ==
    /\ ListOf(ids') = ListOf(ids)
    /\ GetOrderOf(ids') = GetOrderOf(ids)
    /\ \A id \in IDArgs : GetOf(ids', id) = GetOf(ids, id)

\* ------------------------------------------------------------------ claims

\* C1: each successful Add, Insert and Remove of an id that is no slot changes
\* List() by its placement rule alone: Add(Before) puts the id at index 0,
\* Add(After) at the end, Insert(After X) right behind X, Insert(Before X)
\* right before X, Remove deletes that id; the other ids keep their order.
C1_PlacementRules ==
    [][last'.err = NoErr =>
        /\ last'.op = "Add" =>
              \A m \in Middlewares, pos \in Positions :
                 (~IsSlot(ids, m.id) /\ Add(m, pos)) =>
                    /\ pos \in {Before, After}
                    /\ pos = Before => ListOf(ids') = <<m.id>> \o ListOf(ids)
                    /\ pos = After => ListOf(ids') = ListOf(ids) \o <<m.id>>
        /\ last'.op = "Insert" =>
              \A m \in Middlewares, rel \in IDArgs, pos \in Positions :
                 Insert(m, rel, pos) =>
                    LET k == IndexOf(ListOf(ids), rel) IN
                    /\ k >= 1
                    /\ pos \in {Before, After}
                    /\ pos = Before =>
                          ListOf(ids') = InsertBehind(ListOf(ids), k - 1, m.id)
                    /\ pos = After =>
                          ListOf(ids') = InsertBehind(ListOf(ids), k, m.id)
        /\ last'.op = "Remove" =>
              \A id \in IDArgs :
                 (~IsSlot(ids, id) /\ Remove(id)) =>
                    /\ id \in Elems(ListOf(ids))
                    /\ ListOf(ids') = Without(ListOf(ids), id)
      ]_vars

\* An Insert has put an id between two others.
C1_Witness ==
    /\ last.op = "Insert" /\ last.err = NoErr
    /\ List = <<"a", "c", "b">>
    /\ ids.slots = {}

\* C2: no identifier occurs twice in List().
C2_NoDuplicateIDs ==
    \A i, j \in 1..Len(List) : i # j => List[i] # List[j]

\* A full registry has just refused an id it already holds.
C2_Witness ==
    /\ last.op \in {"Add", "AddSlot", "Insert", "InsertSlot", "Swap"}
    /\ last.err = ErrExists
    /\ Len(List) = 3

\* The step just taken is not a failed call that left every answer as it was.
SucceededOrChanged == last'.err = NoErr \/ (ids' # ids /\ ~SameAnswers)

C4_SwapInPlace ==
    [][(last'.op = "Swap" /\ last'.err = NoErr) =>
        \A id \in IDArgs, m \in Middlewares :
           Swap(id, m) =>
              LET L == ListOf(ids)
                  L2 == ListOf(ids')
                  k == IndexOf(L, id) IN
              /\ k >= 1
              /\ Len(L2) = Len(L)
              /\ L2[k] = m.id
              /\ \A j \in (1..Len(L)) \ {k} : L2[j] = L[j]
              /\ \A x \in IDs \ {id, m.id} : GetOf(ids', x) = GetOf(ids, x)
      ]_vars

\* A Swap has replaced the bound item "b", ahead of another bound item, by
\* one with another id.
C4_Witness ==
    /\ last.op = "Swap" /\ last.err = NoErr
    /\ last.removed = [id |-> "b", v |-> 1]
    /\ List = <<"c", "a">>
    /\ DOMAIN ids.items = {"a", "c"}

\* The number of bound ids ahead of id in List(): where GetOrder() holds the
\* item of id once one is bound.
BoundAhead(g, id) ==
    Cardinality({j \in 1..(IndexOf(ListOf(g), id) - 1) : ListOf(g)[j] \in DOMAIN g.items})

\* C5: for a slot X that holds no item, Swap(X, m) with m's id X succeeds and
\* GetOrder() then holds m where the slot stands in List(), which is as it
\* was; Swap(X, m) with another id fails and changes no answer.
C5_SwapFillsSlot ==
    [][last'.op = "Swap" =>
        \A X \in IDs, m \in Middlewares :
           (IsSlot(ids, X) /\ X \notin DOMAIN ids.items /\ Swap(X, m)) =>
              IF m.id = X
              THEN /\ last'.err = NoErr
                   /\ ListOf(ids') = ListOf(ids)
                   /\ Len(GetOrderOf(ids')) = Len(GetOrderOf(ids)) + 1
                   /\ GetOrderOf(ids')[BoundAhead(ids, X) + 1] = m
              ELSE /\ last'.err # NoErr
                   /\ SameAnswers
      ]_vars

\* C6: Add of an item whose id is a slot binds the item and leaves List() as it
\* was, whatever the position asked for; a successful Add of an id that is not
\* a slot places the id by the position and binds it.
C6_AddFillsSlotInPlace ==
    [][last'.op = "Add" =>
        \A m \in Middlewares, pos \in Positions :
           Add(m, pos) =>
              /\ (m.id # EmptyID /\ IsSlot(ids, m.id)) =>
                    /\ last'.err = NoErr
                    /\ ListOf(ids') = ListOf(ids)
                    /\ GetOf(ids', m.id) = [v |-> m, ok |-> TRUE]
              /\ (~IsSlot(ids, m.id) /\ last'.err = NoErr) =>
                    /\ pos = Before => ListOf(ids') = <<m.id>> \o ListOf(ids)
                    /\ pos # Before => ListOf(ids') = ListOf(ids) \o <<m.id>>
                    /\ GetOf(ids', m.id) = [v |-> m, ok |-> TRUE]
      ]_vars

\* An Add has bound an item to the slot "b", which stands between two slots
\* that hold nothing.
C6_Witness ==
    /\ last.op = "Add" /\ last.err = NoErr
    /\ List = <<"a", "b", "c">>
    /\ ids.slots = {"a", "b", "c"}
    /\ DOMAIN ids.items = {"b"}

\* C8: GetOrder() is the bound items, each once, in the order their ids have
\* in List(); ids without an item are skipped.
C8_GetOrderIsBoundSubsequence ==
    LET G == GetOrder IN
    /\ Len(G) = Cardinality(DOMAIN ids.items)
    /\ \A k \in 1..Len(G) :
          /\ G[k].id \in DOMAIN ids.items
          /\ G[k] = ids.items[G[k].id]
          /\ IndexOf(List, G[k].id) >= 1
    /\ \A k, l \in 1..Len(G) : k < l => IndexOf(List, G[k].id) < IndexOf(List, G[l].id)

\* Two bound items with an empty slot between them.
C8_Witness ==
    /\ List = <<"a", "c", "b">>
    /\ ids.slots = {"c"}
    /\ DOMAIN ids.items = {"a", "b"}
    /\ Len(GetOrder) = 2

\* C9 as written: after a successful Remove(id) on a slot id, id is no longer
\* in List().
C9_Original ==
    [][(last'.op = "Remove" /\ last'.err = NoErr) =>
        \A id \in IDs : (IsSlot(ids, id) /\ Remove(id)) => id \notin Elems(ListOf(ids'))
      ]_vars

\* C9 amended: Remove(id) on a slot id succeeds and deletes only the item bound
\* to id: List() is as it was, id is still a slot, Get(id) finds nothing and
\* every other id keeps its item.  Add of that id afterwards binds the item at
\* the slot's position, whatever position the Add call asks for.
C9_Amended ==
    [][/\ last'.op = "Remove" =>
             \A id \in IDs :
                (IsSlot(ids, id) /\ Remove(id)) =>
                   /\ last'.err = NoErr
                   /\ ListOf(ids') = ListOf(ids)
                   /\ ids'.slots = ids.slots
                   /\ ~GetOf(ids', id).ok
                   /\ \A x \in IDs \ {id} : GetOf(ids', x) = GetOf(ids, x)
       /\ last'.op = "Add" =>
             \A m \in Middlewares, pos \in Positions :
                (IsSlot(ids, m.id) /\ ~GetOf(ids, m.id).ok /\ Add(m, pos)) =>
                   /\ last'.err = NoErr
                   /\ ListOf(ids') = ListOf(ids)
                   /\ GetOf(ids', m.id) = [v |-> m, ok |-> TRUE]
      ]_vars

\* A Remove has emptied the slot "b", which still stands between two items.
C9_Witness ==
    /\ last.op = "Remove" /\ last.err = NoErr
    /\ List = <<"a", "b", "c">>
    /\ ids.slots = {"b"}
    /\ DOMAIN ids.items = {"a", "c"}

\* The ids of the handlers invoked for the request, and of the snapshot.
TraceIDs == [k \in 1..Len(trace) |-> trace[k].h]
OrderIDs == [k \in 1..Len(order) |-> order[k].id]

\* Every middleware invoked for the request called its next handler once.
EachCalledNextOnce ==
    \A k \in 1..Len(trace) : trace[k].h # "next" => trace[k].calls = 1

\* C7: when HandleMiddleware has returned and every middleware called next
\* once, the handlers invoked are the snapshot's middleware in registry order
\* and then the terminal handler, each once; when the first i-1 middleware
\* called next once and the i-th returned without calling it, the first i
\* middleware were invoked and nothing else.
C7_ChainOrder ==
    pc = "done" =>
       /\ EachCalledNextOnce => TraceIDs = OrderIDs \o <<"next">>
       /\ \A i \in 1..Len(trace) :
             (/\ trace[i].h # "next"
              /\ trace[i].calls = 0
              /\ \A k \in 1..(i - 1) : trace[k].calls = 1)
                => TraceIDs = SubSeq(OrderIDs, 1, i)

\* A request has run through three middleware, each calling next once.
C7_Witness ==
    /\ pc = "done"
    /\ Len(order) = 3
    /\ EachCalledNextOnce
    /\ Len(trace) = 4

\* C10 as written: the output, metadata and error of the outermost handler
\* reach HandleMiddleware's caller unchanged.
C10_Original ==
    pc = "done" =>
       /\ ret.out.type = "DeserializeOutput"
       /\ ret.out.value = res.out
       /\ ret.metadata = res.metadata
       /\ ret.err = res.err

\* C10 amended: HandleMiddleware returns the Result field of the outermost
\* handler's output, and that handler's metadata and error unchanged; the
\* RawResponse is not returned, and with no middleware bound the output
\* returned is nil.
C10_Amended ==
    pc = "done" =>
       /\ ret.out = res.out.Result
       /\ ret.metadata = res.metadata
       /\ ret.err = res.err
       /\ Len(order) = 0 => ret.out = Nil

\* A chain has returned a raw response, a result and the terminal handler's
\* error.
C10_Witness ==
    /\ pc = "done"
    /\ Len(order) >= 1
    /\ res.out.RawResponse # Nil
    /\ res.out.Result # Nil
    /\ res.err = "next failed"

\* ------------------------------------------------------------ waiter claims

\* The verdicts of the state evaluator.
RetryVerdict == Verdict(TRUE, NoErr)
SuccessVerdict == Verdict(FALSE, NoErr)
FailureVerdict == Verdict(FALSE, ErrFailureState)

\* The verdict an acceptor's state stands for.
StateVerdict(state) ==
    CASE state = "success" -> SuccessVerdict
      [] state = "failure" -> FailureVerdict
      [] state = "retry" -> RetryVerdict

\* The value the acceptor's path names in (input, output), or "none" when the
\* path cannot be evaluated.
Extracted(a, input, output) ==
    LET data == IF a.matcher = "output" THEN output ELSE InputOutput(input, output) IN
    IF ~a.path.valid THEN PathValue("none", "", FALSE, <<>>)
    ELSE IF a.path.field \in DOMAIN data THEN data[a.path.field]
    ELSE NilValue

\* The acceptor's matcher fires on (input, output, err).
Fires(a, input, output, err) ==
    CASE a.matcher = "success" -> err = NilError
      [] a.matcher = "errorType" ->
           /\ err # NilError
           /\ IF \E shape \in OperationErrors : EqualsIgnoreCase(shape, a.errorType)
              THEN EqualsIgnoreCase(err.type, a.errorType)
              ELSE err.type \in APIErrorTypes /\ err.code = a.errorType
      [] OTHER ->
           /\ err = NilError
           /\ LET x == Extracted(a, input, output) IN
              CASE a.comparator = "stringEquals" -> x.type = "string" /\ x.s = a.expected
                [] a.comparator = "booleanEquals" ->
                     /\ x.type = "bool"
                     /\ \/ a.expected \in {"1", "t", "T", "TRUE", "true", "True"} /\ x.b
                        \/ a.expected \in {"0", "f", "F", "FALSE", "false", "False"} /\ ~x.b
                [] a.comparator = "allStringEquals" ->
                     /\ x.type = "[]string"
                     /\ Len(x.l) > 0
                     /\ \A k \in 1..Len(x.l) : x.l[k] = a.expected
                [] a.comparator = "anyStringEquals" ->
                     /\ x.type = "[]string"
                     /\ \E k \in 1..Len(x.l) : x.l[k] = a.expected

\* Evaluating the acceptor on (input, output, err) ends in a hard error: the
\* path cannot be evaluated, the expected boolean cannot be parsed, the value
\* has not the comparator's type, or an acceptor for an error type the
\* operation is not modelled with meets an error that is no API error.
Fails(a, input, output, err) ==
    CASE a.matcher = "success" -> FALSE
      [] a.matcher = "errorType" ->
           /\ err # NilError
           /\ ~\E shape \in OperationErrors : EqualsIgnoreCase(shape, a.errorType)
           /\ err.type \notin APIErrorTypes
      [] OTHER ->
           /\ err = NilError
           /\ LET x == Extracted(a, input, output) IN
              \/ x.type = "none"
              \/ a.comparator = "stringEquals" /\ x.type # "string"
              \/ a.comparator = "booleanEquals"
                   /\ \/ a.expected \notin {"1", "t", "T", "TRUE", "true", "True",
                                            "0", "f", "F", "FALSE", "false", "False"}
                      \/ x.type # "bool"
              \/ a.comparator \in {"allStringEquals", "anyStringEquals"} /\ x.type # "[]string"

\* The evaluator has been called and has returned.
Evaluated == eval.verdict # NoVerdict

EvalFires(k) == Fires(eval.acceptors[k], eval.input, eval.output, eval.err)
EvalFails(k) == Fails(eval.acceptors[k], eval.input, eval.output, eval.err)

\* C14 (as claimed): the evaluator examines the acceptors in declaration
\* order and its verdict is that of the first acceptor whose matcher fires,
\* whatever later acceptors say; if no acceptor fires the verdict is retry
\* (retry = true, err = nil).
C14_Original ==
    Evaluated =>
        LET firing == {k \in 1..Len(eval.acceptors) : EvalFires(k)} IN
        IF firing = {} THEN eval.verdict = RetryVerdict
        ELSE eval.verdict =
                StateVerdict(eval.acceptors[CHOOSE k \in firing : \A j \in firing : k <= j].state)

\* C14 (amended): the acceptors are examined in declaration order up to the
\* first one whose matcher fires or whose evaluation ends in a hard error:
\* if it fires the verdict is that of its state, if it fails the verdict is
\* (retry = false, err # nil), whatever later acceptors say; if no acceptor
\* fires or fails the verdict is retry (retry = true, err = nil).
C14_Amended ==
    Evaluated =>
        LET deciding == {k \in 1..Len(eval.acceptors) : EvalFires(k) \/ EvalFails(k)} IN
        IF deciding = {} THEN eval.verdict = RetryVerdict
        ELSE LET first == CHOOSE k \in deciding : \A j \in deciding : k <= j IN
             IF EvalFires(first)
             THEN eval.verdict = StateVerdict(eval.acceptors[first].state)
             ELSE ~eval.verdict.retry /\ eval.verdict.err \notin {NoErr, ErrFailureState}

\* Two acceptors fire and stand for different verdicts: the first one's is
\* returned.
C14_Witness ==
    /\ Evaluated
    /\ Len(eval.acceptors) = 2
    /\ EvalFires(1) /\ EvalFires(2)
    /\ eval.acceptors[1].state = "retry"
    /\ eval.acceptors[2].state = "success"
    /\ eval.verdict = RetryVerdict

\* The first acceptor that fires on the result r under the call's options.
FiringOn(r) ==
    {k \in 1..Len(options.Retryable) : Fires(options.Retryable[k], Params, r.out, r.err)}

\* C15: a fired acceptor's state maps to the verdict Success -> (false, nil),
\* Failure -> (false, waiter failure), Retry -> (true, nil), and Wait acts on
\* the verdict of each attempt: an error makes Wait return it with no further
\* attempt or sleep, (false, nil) makes Wait return nil, and (true, nil)
\* increments attempt and goes back to the head of the loop.
C15_VerdictsAndReaction ==
    [][\A r \in OpResults, d \in 0..MaxOpTime :
          Attempt(r, d) =>
            /\ (FiringOn(r) # {} /\ \A k \in 1..Len(options.Retryable) :
                                       ~Fails(options.Retryable[k], Params, r.out, r.err))
                 => LET first == CHOOSE k \in FiringOn(r) : \A j \in FiringOn(r) : k <= j
                        state == options.Retryable[first].state IN
                    /\ state = "success" => verdict' = Verdict(FALSE, NoErr)
                    /\ state = "failure" => verdict'.retry = FALSE /\ verdict'.err = ErrFailureState
                    /\ state = "retry" => verdict' = Verdict(TRUE, NoErr)
            /\ verdict'.err # NoErr
                 => wpc' = "done" /\ wret' = verdict'.err /\ attempt' = attempt /\ wake' = wake
            /\ (verdict'.err = NoErr /\ ~verdict'.retry)
                 => wpc' = "done" /\ wret' = NoErr
            /\ (verdict'.err = NoErr /\ verdict'.retry)
                 => /\ wpc' = "loop"
                    /\ wret' = NotReturned
                    /\ attempt' = attempt + 1 \/ attempt = MaxAttempts]_vars

\* A Failure acceptor has fired on the second attempt and Wait has returned
\* its error.
C15_Witness ==
    /\ wpc = "done"
    /\ verdict = FailureVerdict
    /\ wret = ErrFailureState
    /\ attempt = 1
    /\ calls = 2

\* C16: when the context is cancelled while Wait is in a backoff sleep, the
\* next step of Wait is to return the 'cancelled while waiting' error: the
\* operation is not invoked again, nil is not returned and no retry is made.
C16_CancelledDuringSleep ==
    [][(wpc = "sleep" /\ cancelled /\ now < wake)
          => (wpc' = "done" /\ wret' = ErrCancelled /\ calls' = calls /\ attempt' = attempt)]_vars

\* The caller cancelled during a sleep, before the timer and the deadline,
\* and Wait has returned.
C16_Witness ==
    /\ wpc = "done"
    /\ cancelled
    /\ now < wake
    /\ now < deadline
    /\ now > 0
    /\ wret = ErrCancelled

\* What Wait returns in Succeeded, in TimedOut and in Failed.
FailedErrors ==
    {ErrFailureState, ErrEvaluating, ErrExpectedString, ErrExpectedBool, ErrExpectedList,
     ErrParseBool, ErrNotAPIError, ErrComputeDelay, ErrCancelled}

\* C17: every Wait call returns, in Succeeded (nil), Failed (an error of the
\* evaluator or of the sleep) or TimedOut, whatever the verdicts and whatever
\* MinDelay and MaxDelay are; the loop is never left for the statement
\* behind it.
C17_WaitReturns ==
    /\ [](wpc = "done" => wret \in {NoErr, ErrExceededMaxWait} \cup FailedErrors)
    /\ [](wret # ErrAfterLoop)
    /\ (wpc \in {"loop", "sleep", "call"}) ~> (wpc = "done")

\* A Wait call with MinDelay = 0, whose delays are all zero, has returned
\* after several attempts that all gave retry.
C17_Witness ==
    /\ wpc = "done"
    /\ options.MinDelay = 0
    /\ attempt >= 3
    /\ verdict = RetryVerdict
    /\ ~cancelled

\* C19: an AllStringEquals acceptor fires exactly when the extracted value is
\* a non-empty list all of whose elements equal the expected string; when it
\* does not fire (on the empty list too) the verdict is that of the acceptors
\* behind it, or the default retry.
C19_AllStringEquals ==
    (/\ Evaluated
     /\ Len(eval.acceptors) >= 1
     /\ eval.acceptors[1].comparator = "allStringEquals"
     /\ eval.err = NilError
     /\ eval.output["p"].type = "[]string")
        => LET a == eval.acceptors[1]
               l == eval.output["p"].l IN
           IF Len(l) > 0 /\ \A k \in 1..Len(l) : l[k] = a.expected
           THEN eval.verdict = StateVerdict(a.state)
           ELSE LET behind == {k \in 2..Len(eval.acceptors) : EvalFires(k) \/ EvalFails(k)} IN
                IF behind = {} THEN eval.verdict = RetryVerdict
                ELSE LET next == CHOOSE k \in behind : \A j \in behind : k <= j IN
                     IF EvalFires(next)
                     THEN eval.verdict = StateVerdict(eval.acceptors[next].state)
                     ELSE ~eval.verdict.retry /\ eval.verdict.err \notin {NoErr, ErrFailureState}

\* An AllStringEquals acceptor alone, on the empty list: the default retry.
C19_Witness ==
    /\ Evaluated
    /\ Len(eval.acceptors) = 1
    /\ eval.acceptors[1].comparator = "allStringEquals"
    /\ eval.err = NilError
    /\ eval.output["p"] = ListValue(<<>>)
    /\ eval.verdict = RetryVerdict

\* ------------------------------------------------- waiter claims that fail

\* The Wait call in progress or returned is the one of the claim's example:
\* MinDelay 2s, MaxDelay 120s, maxWaitTime 10s.
ExampleCall ==
    /\ wpc # "ready"
    /\ options.MinDelay = 2
    /\ options.MaxDelay = 120
    /\ maxWaitTime = 10

\* C11: with minDelay 2s, maxDelay 120s, maxWaitTime 10s and an operation
\* whose every attempt gives retry (and a caller that does not cancel), Wait
\* returns the timed-out error, never nil nor another error, once 10s have
\* passed and no later than one sleep increment after.
C11_AlwaysRetryTimesOut ==
    (ExampleCall /\ wpc = "done" /\ verdict = RetryVerdict /\ ~cancelled)
        => /\ wret = ErrExceededMaxWait
           /\ now >= maxWaitTime
           /\ now <= maxWaitTime + Min(options.MaxDelay, maxWaitTime)

\* C12: when the operation gives retry on its first k attempts and success on
\* attempt k + 1 and the delays of the k retries fit within maxWaitTime, Wait
\* invokes it exactly k + 1 times and returns nil: a Wait call that the
\* caller does not cancel ends on a retry verdict only when the budget is
\* used up, and on the success verdict with nil after attempt + 1
\* invocations.
C12_RetriesThenSuccess ==
    (wpc = "done" /\ ~cancelled /\ maxWaitTime > 0)
        => /\ verdict = RetryVerdict => (wret = ErrExceededMaxWait /\ remainingTime <= 0)
           /\ verdict = SuccessVerdict => (wret = NoErr /\ calls = attempt + 1)

\* C13: Wait called with maxWaitTime = 0 fails at once with the configuration
\* error, which is not the timed-out error, without entering the loop and
\* without invoking the operation.
C13_ZeroMaxWaitTime ==
    (wpc # "ready" /\ maxWaitTime = 0)
        => (wpc = "done" /\ wret = ErrMaxWaitTimeZero /\ calls = 0)

\* C18: timeout and cancellation are not confused: Wait returns the
\* cancelled-while-waiting error only when the caller has cancelled the
\* context, and the timed-out error when its own maxWaitTime has run out,
\* however long the attempts take.
C18_TimeoutIsNotCancellation ==
    (wpc = "done" /\ wret = ErrCancelled) => cancelled

\* ---------------------------------------------------------- List() claims

\* C20: a sequence List() returned is a snapshot: no later Add, AddSlot,
\* Insert, InsertSlot, Swap, Remove or Clear changes its contents, at the
\* relativeOrder level as at the registry and step level.
C20_ListIsSnapshot ==
    listed.held => (Val(listed.order) = listed.was /\ listed.ids = listed.was)

\* ------------------------------------------------- registry claims, part two

\* C22: a successful Swap(id, m) on the step returns the middleware that was
\* bound to id; on a slot that holds no item Swap(id, m) with m's id the
\* slot's completes with no error, and the slot is then filled by m.
C22_SwapReturnsPrevious ==
    [][last'.op = "Swap" =>
        \A id \in IDArgs, m \in Middlewares :
           Swap(id, m) =>
              /\ (last'.err = NoErr /\ GetOf(ids, id).ok) =>
                    last'.removed = GetOf(ids, id).v
              /\ (IsSlot(ids, id) /\ ~GetOf(ids, id).ok /\ m.id = id) =>
                    /\ last'.err = NoErr
                    /\ GetOf(ids', id) = [v |-> m, ok |-> TRUE]
      ]_vars

\* C23 as written, for ids that are not empty: the registry's Swap(id, m)
\* fails with not-found when id is not in the order, with already-exists when
\* m's id is in the order at another entry, and succeeds when m's id is id;
\* after a success Get(m.id) finds m and, for another id, Get(id) finds nothing.
C23_Original ==
    [][last'.op = "Swap" =>
        \A id \in IDs, m \in Middlewares :
           (m.id # EmptyID /\ Swap(id, m)) =>
              LET r == orderedIDs_Swap(ids, id, m)
                  L == ListOf(ids) IN
              /\ id \notin Elems(L) => r.err = ErrNotFound
              /\ (id \in Elems(L) /\ m.id # id /\ m.id \in Elems(L)) => r.err = ErrExists
              /\ (id \in Elems(L) /\ m.id = id) => r.err = NoErr
              /\ r.err = NoErr =>
                    /\ GetOf(ids', m.id) = [v |-> m, ok |-> TRUE]
                    /\ m.id # id => ~GetOf(ids', id).ok
      ]_vars

\* C23 amended: the registry's Swap(id, m) fails with empty-id when id or m's id
\* is empty, else with slot-mismatch when id is a slot and m's id is another
\* id, else with not-found when id is not in the order, else with
\* already-exists when m's id is in the order at another entry; in every other
\* case (m's id is id, or is new) it succeeds.  After a success Get(m.id) finds
\* m and, for another id, Get(id) finds nothing.
C23_Amended ==
    [][last'.op = "Swap" =>
        \A id \in IDArgs, m \in Middlewares :
           Swap(id, m) =>
              LET r == orderedIDs_Swap(ids, id, m)
                  L == ListOf(ids) IN
              /\ r.err =
                    IF id = EmptyID \/ m.id = EmptyID THEN ErrEmptyID
                    ELSE IF IsSlot(ids, id) /\ m.id # id THEN ErrSlotMatch
                    ELSE IF id \notin Elems(L) THEN ErrNotFound
                    ELSE IF m.id # id /\ m.id \in Elems(L) THEN ErrExists
                    ELSE NoErr
              /\ r.err = NoErr =>
                    /\ GetOf(ids', m.id) = [v |-> m, ok |-> TRUE]
                    /\ m.id # id => ~GetOf(ids', id).ok
      ]_vars

\* A Swap has replaced the item "a" by an item with the id "b": "a" is gone
\* from the order and "b" is found.
C23_Witness ==
    /\ last.op = "Swap" /\ last.err = NoErr
    /\ last.removed.id = "a"
    /\ "a" \notin Elems(List)
    /\ GetOf(ids, "b").ok
    /\ ~GetOf(ids, "a").ok

\* The errors the registry's methods return.
RegistryErrors == {ErrEmptyID, ErrExists, ErrNotFound, ErrPosition, ErrSlotMatch}

\* No error of the registry comes back from a request.
NoRegistryErrorFromRequest == pc = "done" => ret.err \notin RegistryErrors

\* C24 as written: on every registry the step reaches, whatever Insert or
\* InsertSlot call comes next, it fails when the id or the anchor is
\* empty, when the id is in the order already (bound or a slot) or when the
\* anchor is not in the order, and succeed otherwise; HandleMiddleware never
\* returns one of these errors.
C24_Original ==
    /\ NoRegistryErrorFromRequest
    /\ \A m \in Middlewares, rel \in IDArgs, pos \in Positions :
          orderedIDs_Insert(ids, m, rel, pos).err # NoErr <=>
             \/ m.id = EmptyID \/ rel = EmptyID
             \/ m.id \in Elems(List)
             \/ rel \notin Elems(List)
    /\ \A id \in IDArgs, rel \in IDArgs, pos \in Positions :
          orderedIDs_InsertSlot(ids, id, rel, pos).err # NoErr <=>
             \/ id = EmptyID \/ rel = EmptyID
             \/ id \in Elems(List)
             \/ rel \notin Elems(List)

\* C24 amended: on every registry the step reaches, whatever Insert or
\* InsertSlot call comes next, it fails when the id or the anchor is empty,
\* when the id is in the order already (bound or a slot), when the anchor is
\* not in the order, or when the position is neither Before nor After, and
\* succeed otherwise; HandleMiddleware never returns one of these errors.
C24_Amended ==
    /\ NoRegistryErrorFromRequest
    /\ \A m \in Middlewares, rel \in IDArgs, pos \in Positions :
          orderedIDs_Insert(ids, m, rel, pos).err # NoErr <=>
             \/ m.id = EmptyID \/ rel = EmptyID
             \/ m.id \in Elems(List)
             \/ rel \notin Elems(List)
             \/ pos \notin {Before, After}
    /\ \A id \in IDArgs, rel \in IDArgs, pos \in Positions :
          orderedIDs_InsertSlot(ids, id, rel, pos).err # NoErr <=>
             \/ id = EmptyID \/ rel = EmptyID
             \/ id \in Elems(List)
             \/ rel \notin Elems(List)
             \/ pos \notin {Before, After}

\* An Insert of the id of a slot that holds nothing has been refused: the
\* slot is still empty.
C24_Witness ==
    /\ last.op = "Insert" /\ last.err = ErrExists
    /\ ids.slots = {"a"}
    /\ List = <<"a">>
    /\ ~GetOf(ids, "a").ok

\* On the registry g, Get finds for an id an item of that id only, and only for
\* an id that List() holds; when it finds nothing it answers (nil, false).
FoundAreListed(g) ==
    \A id \in IDArgs :
       /\ GetOf(g, id).ok => (GetOf(g, id).v.id = id /\ id \in Elems(ListOf(g)))
       /\ ~GetOf(g, id).ok => GetOf(g, id) = [v |-> NilMw, ok |-> FALSE]
       /\ id \notin Elems(ListOf(g)) => ~GetOf(g, id).ok

\* C26: Get(id) finds an item exactly when one is bound to id.  On every
\* registry the step reaches, whatever call comes next: a successful Add,
\* Insert or Swap binds the item it is given; a successful AddSlot or
\* InsertSlot lists an id that Get does not find; after a successful Remove
\* Get finds nothing for the id; no call changes what Get answers for an id
\* that is not its argument, and a failed call changes no answer.  For a slot
\* that holds nothing Get answers as for an id that is absent.
C26_GetFindsBoundItems ==
    /\ FoundAreListed(ids)
    /\ \A id \in ids.slots \ DOMAIN ids.items, x \in IDs \ Elems(List) :
          /\ id \in Elems(List)
          /\ GetOf(ids, id) = GetOf(ids, x)
    /\ \A m \in Middlewares, pos \in Positions :
          LET r == orderedIDs_Add(ids, m, pos) IN
          /\ r.err = NoErr => GetOf(r.g, m.id) = [v |-> m, ok |-> TRUE]
          /\ \A x \in IDArgs : (x # m.id \/ r.err # NoErr) => GetOf(r.g, x) = GetOf(ids, x)
    /\ \A m \in Middlewares, rel \in IDArgs, pos \in Positions :
          LET r == orderedIDs_Insert(ids, m, rel, pos) IN
          /\ r.err = NoErr => GetOf(r.g, m.id) = [v |-> m, ok |-> TRUE]
          /\ \A x \in IDArgs : (x # m.id \/ r.err # NoErr) => GetOf(r.g, x) = GetOf(ids, x)
    /\ \A id \in IDArgs, m \in Middlewares :
          LET r == orderedIDs_Swap(ids, id, m) IN
          /\ r.err = NoErr => GetOf(r.g, m.id) = [v |-> m, ok |-> TRUE]
          /\ \A x \in IDArgs :
                (x \notin {id, m.id} \/ r.err # NoErr) => GetOf(r.g, x) = GetOf(ids, x)
    /\ \A id \in IDArgs, pos \in Positions :
          LET r == orderedIDs_AddSlot(ids, id, pos) IN
          /\ r.err = NoErr => (id \in Elems(ListOf(r.g)) /\ ~GetOf(r.g, id).ok)
          /\ \A x \in IDArgs : (x # id \/ r.err # NoErr) => GetOf(r.g, x) = GetOf(ids, x)
    /\ \A id \in IDArgs, rel \in IDArgs, pos \in Positions :
          LET r == orderedIDs_InsertSlot(ids, id, rel, pos) IN
          /\ r.err = NoErr => (id \in Elems(ListOf(r.g)) /\ ~GetOf(r.g, id).ok)
          /\ \A x \in IDArgs : (x # id \/ r.err # NoErr) => GetOf(r.g, x) = GetOf(ids, x)
    /\ \A id \in IDArgs :
          LET r == orderedIDs_Remove(ids, id) IN
          /\ r.err = NoErr => ~GetOf(r.g, id).ok
          /\ \A x \in IDArgs : (x # id \/ r.err # NoErr) => GetOf(r.g, x) = GetOf(ids, x)

\* A Remove has emptied the slot "b": "b" is listed and Get finds nothing for
\* it, as for "c", which is absent.
C26_Witness ==
    /\ last.op = "Remove" /\ last.err = NoErr
    /\ List = <<"a", "b">>
    /\ ids.slots = {"b"}
    /\ GetOf(ids, "a").ok
    /\ GetOf(ids, "b") = GetOf(ids, "c")
    /\ ~GetOf(ids, "b").ok

\* The registry g as its methods see it: the ids of the order, the items and
\* the slots, without what the order's array holds behind its length.
Seen(g) == [order |-> SliceOf(Val(g.order)), items |-> g.items, slots |-> g.slots]

\* Two results of a registry method are the same to the caller.
SameResult(r1, r2) == r1.err = r2.err /\ Seen(r1.g) = Seen(r2.g)

\* Every method answers on g as it does on the registry that holds what g
\* shows and nothing else.
HistoryFree(g) ==
    /\ \A m \in Middlewares, pos \in Positions :
          SameResult(orderedIDs_Add(g, m, pos), orderedIDs_Add(Seen(g), m, pos))
    /\ \A id \in IDArgs, pos \in Positions :
          SameResult(orderedIDs_AddSlot(g, id, pos), orderedIDs_AddSlot(Seen(g), id, pos))
    /\ \A m \in Middlewares, rel \in IDArgs, pos \in Positions :
          SameResult(orderedIDs_Insert(g, m, rel, pos), orderedIDs_Insert(Seen(g), m, rel, pos))
    /\ \A id \in IDArgs, rel \in IDArgs, pos \in Positions :
          SameResult(orderedIDs_InsertSlot(g, id, rel, pos),
                     orderedIDs_InsertSlot(Seen(g), id, rel, pos))
    /\ \A id \in IDArgs, m \in Middlewares :
          /\ SameResult(orderedIDs_Swap(g, id, m), orderedIDs_Swap(Seen(g), id, m))
          /\ orderedIDs_Swap(g, id, m).removed = orderedIDs_Swap(Seen(g), id, m).removed
    /\ \A id \in IDArgs :
          SameResult(orderedIDs_Remove(g, id), orderedIDs_Remove(Seen(g), id))
    /\ Seen(orderedIDs_Clear(g)) = Seen(orderedIDs_Clear(Seen(g)))
    /\ ListOf(g) = ListOf(Seen(g))
    /\ GetOrderOf(g) = GetOrderOf(Seen(g))

\* C27: right after Clear(), List() and GetOrder() are empty, Get finds
\* nothing, no id is a slot, and the registry shows what a new registry shows;
\* every id can be added again.  What a registry answers to any call depends
\* on what it shows only, so the calls after a Clear place the ids as they do
\* on a new registry.
C27_ClearResets ==
    /\ last.op = "Clear" =>
          /\ List = <<>>
          /\ GetOrder = <<>>
          /\ \A id \in IDArgs : ~GetOf(ids, id).ok /\ ~IsSlot(ids, id)
          /\ Seen(ids) = newOrderedIDs
          /\ \A m \in Middlewares, pos \in {Before, After} :
                m.id # EmptyID =>
                   /\ orderedIDs_Add(ids, m, pos).err = NoErr
                   /\ ListOf(orderedIDs_Add(ids, m, pos).g) = <<m.id>>
                   /\ orderedIDs_AddSlot(ids, m.id, pos).err = NoErr
    /\ HistoryFree(ids)

\* An id has been added to a registry that was cleared when it held three
\* ids: the order's array still holds two of them behind its length.
C27_Witness ==
    /\ last.op = "Add" /\ last.err = NoErr
    /\ List = <<"c">>
    /\ Cap(ids.order) >= 3
    /\ ids.order.arr[2] = "b"
    /\ ids.slots = {}

\* The slots of g that hold no item, and the middleware whose ids g does not
\* hold yet.
EmptySlots(g) == g.slots \ DOMAIN g.items
NewMiddlewares(g) == {m \in Middlewares : m.id # EmptyID /\ m.id \notin Elems(ListOf(g))}

\* The slot X of g filled with m: by Add (at any position) or by Swap.
FillWays == {"Add", "Swap"}
Filled(g, X, m, how) ==
    IF how = "Add" THEN orderedIDs_Add(g, m, Before) ELSE orderedIDs_Swap(g, X, m)

\* The ids of the middleware a chain built on g runs, in order.
ChainIDs(g) == [k \in 1..Len(GetOrderOf(g)) |-> GetOrderOf(g)[k].id]

\* In seq, x stands right before y.
RightBefore(seq, x, y) == IndexOf(seq, x) >= 1 /\ IndexOf(seq, x) + 1 = IndexOf(seq, y)

\* C25: on every registry the step reaches, for every slot X that holds no
\* item: Insert and InsertSlot of a new id relative to X succeed; when X is
\* filled by Add or Swap of an item with the id X, before or after the
\* insertions, a chain runs an item inserted Before X right ahead of the
\* filling item and an item inserted After X right behind it, and the order
\* of the calls makes no difference.  A request runs the middleware in that
\* order.
C25_SlotIsAnchor ==
    /\ \A X \in EmptySlots(ids), p \in NewMiddlewares(ids), pos \in {Before, After} :
          LET ins == orderedIDs_Insert(ids, p, X, pos)
              slot == orderedIDs_InsertSlot(ids, p.id, X, pos) IN
          /\ ins.err = NoErr
          /\ slot.err = NoErr
          /\ pos = Before => RightBefore(ListOf(slot.g), p.id, X)
          /\ pos = After => RightBefore(ListOf(slot.g), X, p.id)
          /\ \A m \in {f \in Middlewares : f.id = X}, how \in FillWays :
                LET fill == Filled(ids, X, m, how)
                    insThenFill == Filled(ins.g, X, m, how)
                    fillThenIns == orderedIDs_Insert(fill.g, p, X, pos) IN
                /\ fill.err = NoErr
                /\ insThenFill.err = NoErr
                /\ fillThenIns.err = NoErr
                /\ GetOrderOf(insThenFill.g) = GetOrderOf(fillThenIns.g)
                /\ GetOf(insThenFill.g, X) = [v |-> m, ok |-> TRUE]
                /\ pos = Before => RightBefore(ChainIDs(insThenFill.g), p.id, X)
                /\ pos = After => RightBefore(ChainIDs(insThenFill.g), X, p.id)
                /\ \A q \in NewMiddlewares(ids) :
                      q.id # p.id =>
                         LET both == orderedIDs_Insert(ins.g, q, X, After)
                             bothThenFill == Filled(both.g, X, m, how)
                             fillBetween ==
                                orderedIDs_Insert(Filled(ins.g, X, m, how).g, q, X, After) IN
                         /\ both.err = NoErr
                         /\ RightBefore(ChainIDs(bothThenFill.g), X, q.id)
                         /\ pos = Before => RightBefore(ChainIDs(bothThenFill.g), p.id, X)
                         /\ pos = After =>
                               /\ RightBefore(ChainIDs(bothThenFill.g), q.id, p.id)
                         /\ GetOrderOf(fillBetween.g) = GetOrderOf(bothThenFill.g)
    /\ (pc = "done" /\ EachCalledNextOnce) => TraceIDs = ChainIDs(ids) \o <<"next">>

\* A request has run through the filled slot "b" and the items on either side
\* of it.
C25_Witness ==
    /\ pc = "done"
    /\ ids.slots = {"b"}
    /\ List = <<"a", "b", "c">>
    /\ TraceIDs = <<"a", "b", "c", "next">>
    /\ EachCalledNextOnce

\* ------------------------------------------------- waiter claims, part two

\* C29: in a Wait call the first attempt follows the loop head at once, with
\* no sleep and nothing charged; after an attempt that asks for a retry the loop
\* head leads to a sleep (or to the return), never straight to the next
\* attempt, and the sleep leads to the next attempt (or to the return), so one
\* sleep stands between two attempts; the delay is taken from remainingTime in
\* the step that starts the sleep, before any time passes, and nothing is
\* charged or given back while or after the sleep, also when it is cut short.
C29_SleepBetweenAttempts ==
    [][/\ (wpc = "loop" /\ attempt = 0 /\ maxWaitTime > 0 /\ ~(cancelled' /\ ~cancelled)) =>
             /\ wpc' = "call"
             /\ now' = now
             /\ remainingTime' = remainingTime
       /\ (wpc = "loop" /\ wpc' = "call") => (attempt = 0 /\ calls = 0)
       /\ (wpc = "call" /\ wpc' = "loop") => (attempt' >= 1 /\ calls' >= 1)
       /\ (wpc = "loop" /\ attempt > 0) => wpc' \in {"loop", "sleep", "done"}
       /\ (wpc = "loop" /\ wpc' = "sleep") =>
             /\ attempt > 0
             /\ now' = now
             /\ wake' >= now
             /\ remainingTime' = remainingTime - (wake' - now)
             /\ calls' = calls
       /\ wpc = "sleep" =>
             /\ wpc' \in {"sleep", "call", "done"}
             /\ remainingTime' = remainingTime
             /\ calls' = calls
             /\ attempt' = attempt
       /\ (wpc = "sleep" /\ wpc' = "done") => wret' = ErrCancelled
       /\ (wpc \in {"loop", "sleep", "call"} /\ calls' # calls) =>
             (wpc = "call" /\ calls' = Min(calls + 1, MaxAttempts + 1))
      ]_vars

\* The caller has cancelled the first sleep of a Wait call with a budget of
\* 10s and a first delay of 2s: 8s remain.
C29_Witness ==
    /\ wpc = "done"
    /\ wret = ErrCancelled
    /\ cancelled
    /\ now < wake
    /\ calls = 1
    /\ maxWaitTime = 10
    /\ options.MinDelay = 2
    /\ remainingTime = 8

ReqTraceIDs(q) == [k \in 1..Len(q.trace) |-> q.trace[k].h]

ReqEachCalledNextOnce(q) ==
    \A k \in 1..Len(q.trace) : q.trace[k].h # "next" => q.trace[k].calls = 1

ReqChainOf(q, i) == BuildChain(SubSeq(q.order, i, Len(q.order)))

\* C21: HandleMiddleware calls that run at the same time on a step no one is
\* changing leave the registry as it is, and each of them runs the middleware
\* it would run alone: its chain is built from GetOrder() of the registry into
\* its own locals, each of its steps depends on its own locals only and
\* leaves the other calls' locals alone, and when every middleware called
\* next once it invoked the bound middleware in GetOrder() order and then the
\* terminal handler.
C21_ConcurrentRequests ==
    [][ /\ ids' = ids
        /\ \A c \in Requests :
              /\ reqs'[c] # reqs[c] =>
                    /\ \A d \in Requests \ {c} : reqs'[d] = reqs[d]
                    /\ reqs'[c] \in
                          (IF reqs[c].pc = "idle" THEN Started(ids) ELSE {})
                          \cup CalledNext(reqs[c]) \cup Returned(reqs[c])
                          \cup (IF reqs[c].pc = "done" THEN {IdleRequest} ELSE {})
              /\ reqs'[c].pc # "idle" =>
                    /\ reqs'[c].order = orderedIDs_GetOrder(ids)
                    /\ \A i \in 1..Len(reqs'[c].stack) :
                          reqs'[c].stack[i].h = ReqChainOf(reqs'[c], i)
              /\ (reqs'[c].pc = "done" /\ ReqEachCalledNextOnce(reqs'[c])) =>
                    ReqTraceIDs(reqs'[c]) =
                       IDsOf(orderedIDs_GetOrder(ids)) \o <<"next">>
      ]_vars

C21_Witness ==
    /\ IDsOf(orderedIDs_GetOrder(ids)) = <<"a", "b">>
    /\ reqs[1].pc = "done"
    /\ ReqEachCalledNextOnce(reqs[1])
    /\ ReqTraceIDs(reqs[1]) = <<"a", "b", "next">>
    /\ reqs[2].pc = "running"
    /\ Len(reqs[2].stack) = 2
    /\ ReqTraceIDs(reqs[2]) = <<"a", "b">>

\* C28: HandleMiddleware takes GetOrder() once, when it starts, and builds
\* the chain from it; a middleware that changes the step while the request
\* runs changes the registry and not that chain: the handlers in progress and
\* the handlers still to come are those of the snapshot, and a call that
\* starts afterwards takes GetOrder() of the changed registry.
C28_SnapshotChain ==
    [][ /\ (pc = "idle" /\ pc' # "idle") => order' = orderedIDs_GetOrder(ids)
        /\ (pc = "running" /\ pc' # "idle") => order' = order
        /\ (ids' # ids /\ last'.err # Panic) => UNCHANGED reqvars
        /\ pc' = "running" =>
              \A i \in 1..Len(stack') :
                 stack'[i].h = BuildChain(SubSeq(order', i, Len(order')))
        /\ (pc = "running" /\ Len(trace') > Len(trace)) =>
              trace'[Len(trace')].h =
                 IF Len(stack) < Len(order) THEN order[Len(stack) + 1].id
                 ELSE "next"
        /\ (pc' = "done" /\ EachCalledNextOnce') =>
              TraceIDs' = OrderIDs' \o <<"next">>
      ]_vars

C28_Witness ==
    /\ pc = "done"
    /\ EachCalledNextOnce
    /\ TraceIDs = <<"a", "b", "next">>
    /\ last = Call("Clear", NoErr, NilMw)
    /\ orderedIDs_GetOrder(ids) = <<>>


\* ----------------------------------------------- evaluator claims, part two

\* The acceptors of the evaluator's call that are of the matchers given.
EvalOnly(matchers) ==
    SelectSeq(eval.acceptors, LAMBDA a : a.matcher \in matchers)

\* The errors of a path extraction or of a comparator.
PathErrors ==
    {ErrEvaluating, ErrExpectedString, ErrExpectedBool, ErrExpectedList, ErrParseBool}

\* The first index of the evaluator's call in the set given.
FirstOf(S) == CHOOSE k \in S : \A j \in S : k <= j

\* C31: the matchers are gated by the operation's error.  On a result with
\* err # nil the output, inputOutput and success acceptors are passed over:
\* the verdict is that of the errorType acceptors alone, it is the same
\* whatever the output is (no path is extracted from it) and it carries no
\* error of a path or a comparator.  On a result with err = nil the errorType
\* acceptors are passed over, and a success acceptor that is reached fires
\* whatever the output is.
C31_MatchersGatedByError ==
    Evaluated =>
       /\ eval.err # NilError =>
             /\ eval.verdict = StateRetryable(EvalOnly({"errorType"}), eval.input,
                                              eval.output, eval.err)
             /\ \A r \in EvalResults :
                   StateRetryable(eval.acceptors, eval.input, r.out, eval.err)
                      = eval.verdict
             /\ eval.verdict.err \notin PathErrors
             /\ \A k \in 1..Len(eval.acceptors) :
                   eval.acceptors[k].matcher # "errorType" => ~EvalFires(k)
       /\ eval.err = NilError =>
             /\ eval.verdict = StateRetryable(EvalOnly({"output", "inputOutput", "success"}),
                                              eval.input, eval.output, eval.err)
             /\ eval.verdict.err # ErrNotAPIError
             /\ \A k \in 1..Len(eval.acceptors) :
                   /\ eval.acceptors[k].matcher = "errorType" => ~EvalFires(k)
                   /\ eval.acceptors[k].matcher = "success" => EvalFires(k)
                   /\ (/\ eval.acceptors[k].matcher = "success"
                       /\ \A j \in 1..(k - 1) : ~EvalFires(j) /\ ~EvalFails(j))
                         => eval.verdict = StateVerdict(eval.acceptors[k].state)

\* A failed call has met an acceptor whose path does not compile and a
\* success acceptor: neither was evaluated and the verdict is retry.
C31_Witness ==
    /\ Evaluated
    /\ eval.err = OpError("net.OpError", "")
    /\ Len(eval.acceptors) = 2
    /\ eval.acceptors[1].matcher = "output" /\ ~eval.acceptors[1].path.valid
    /\ eval.acceptors[2] = SuccessAcceptor("success")
    /\ eval.verdict = RetryVerdict

\* The errorType acceptor at k meets an error that it cannot classify: it
\* names no error shape of the operation and the error is no API error.
EvalUnclassified(k) ==
    /\ eval.acceptors[k].matcher = "errorType"
    /\ eval.err # NilError
    /\ ~\E shape \in OperationErrors : EqualsIgnoreCase(shape, eval.acceptors[k].errorType)
    /\ eval.err.type \notin APIErrorTypes

\* An errorType acceptor fires only on a non-nil error whose type or API
\* error code is the identifier it expects.
ErrorTypeFiresOnlyOnMatch ==
    \A k \in 1..Len(eval.acceptors) :
       (eval.acceptors[k].matcher = "errorType" /\ EvalFires(k)) =>
          /\ eval.err # NilError
          /\ \/ EqualsIgnoreCase(eval.err.type, eval.acceptors[k].errorType)
             \/ eval.err.code = eval.acceptors[k].errorType

\* C32 (as claimed): an errorType acceptor fires only when err # nil and the
\* error's type or API error code is the expected identifier; on every other
\* non-nil error it does not fire and does not end the evaluation: the verdict
\* is that of the first acceptor that fires and, if none fires, retry.
C32_Original ==
    Evaluated =>
       /\ ErrorTypeFiresOnlyOnMatch
       /\ eval.err # NilError =>
             LET firing == {k \in 1..Len(eval.acceptors) : EvalFires(k)} IN
             IF firing = {} THEN eval.verdict = RetryVerdict
             ELSE eval.verdict = StateVerdict(eval.acceptors[FirstOf(firing)].state)

\* C32 (amended): as claimed, but an errorType acceptor that names no error
\* shape of the operation ends the evaluation with (retry = false, "expected
\* err to be of type smithy.APIError") when the error is no API error, unless
\* an earlier acceptor has fired; an API error with another code, and any
\* error that is not of the shape an acceptor names, is passed on to the next
\* acceptors.
C32_Amended ==
    Evaluated =>
       /\ ErrorTypeFiresOnlyOnMatch
       /\ eval.err # NilError =>
             LET deciding == {k \in 1..Len(eval.acceptors) :
                                 EvalFires(k) \/ EvalUnclassified(k)} IN
             IF deciding = {} THEN eval.verdict = RetryVerdict
             ELSE IF EvalFires(FirstOf(deciding))
             THEN eval.verdict = StateVerdict(eval.acceptors[FirstOf(deciding)].state)
             ELSE eval.verdict = Verdict(FALSE, ErrNotAPIError)

\* An API error with another code has passed an errorType acceptor and the
\* acceptor after it has fired.
C32_Witness ==
    /\ Evaluated
    /\ eval.err = OpError("GenericAPIError", "Unknown")
    /\ eval.acceptors = <<ErrorTypeAcceptor("Throttled", "failure"),
                          ErrorTypeAcceptor("notfound", "retry")>>
    /\ eval.verdict = RetryVerdict


\* The acceptors of the call's options that decide on the result r: those
\* that fire and those whose evaluation ends in a hard error.
DecidingOn(r) ==
    {k \in 1..Len(options.Retryable) :
        \/ Fires(options.Retryable[k], Params, r.out, r.err)
        \/ Fails(options.Retryable[k], Params, r.out, r.err)}

\* The error of the path matcher a on (input, output): of the extraction, or
\* of the comparator that got a value of another type.
PathErrorOf(a, input, output) ==
    LET x == Extracted(a, input, output) IN
    IF x.type = "none" THEN ErrEvaluating
    ELSE CASE a.comparator = "stringEquals" -> ErrExpectedString
           [] a.comparator = "booleanEquals" ->
                IF ParseBool(a.expected).err # NoErr THEN ErrParseBool ELSE ErrExpectedBool
           [] OTHER -> ErrExpectedList

\* C33: when the first acceptor that decides on an attempt's result is an
\* output or inputOutput acceptor whose path cannot be extracted or whose
\* comparator gets a value of another type, the evaluator returns
\* (retry = false, that error) whatever the acceptors after it are, and Wait
\* returns that error: no sleep and no attempt follows in that Wait call.
C33_EvaluationErrorIsHard ==
    [][ /\ \A r \in OpResults, d \in 0..MaxOpTime :
              (/\ Attempt(r, d)
               /\ DecidingOn(r) # {}
               /\ Fails(options.Retryable[FirstOf(DecidingOn(r))], Params, r.out, r.err)
               /\ options.Retryable[FirstOf(DecidingOn(r))].matcher
                     \in {"output", "inputOutput"}) =>
                 LET first == FirstOf(DecidingOn(r)) IN
                 /\ verdict' = Verdict(FALSE, PathErrorOf(options.Retryable[first],
                                                          Params, r.out))
                 /\ verdict'.err \in PathErrors
                 /\ verdict' = StateRetryable(SubSeq(options.Retryable, 1, first),
                                              Params, r.out, r.err)
                 /\ wpc' = "done"
                 /\ wret' = verdict'.err
                 /\ attempt' = attempt
                 /\ wake' = wake
        /\ (wpc = "done" /\ wret \in PathErrors) =>
              /\ verdict = Verdict(FALSE, wret)
              /\ wpc' = "loop" /\ calls' = 0 /\ wret' = NotReturned
      ]_vars

\* The path of the first acceptor does not compile: Wait has returned the
\* extraction's error after one attempt, although the success acceptor after
\* it matches every result.
C33_Witness ==
    /\ wpc = "done"
    /\ wret = ErrEvaluating
    /\ verdict = Verdict(FALSE, ErrEvaluating)
    /\ calls = 1
    /\ attempt = 0
    /\ Len(options.Retryable) = 2
    /\ options.Retryable[2] = SuccessAcceptor("success")


\* C39: the option functions of a Wait call are applied to a copy of the
\* waiter's options.  The waiter's stored MinDelay, MaxDelay, LogWaitAttempts
\* and Retryable are those of the constructor before, during and after every
\* Wait call; the options of a call are the stored ones with that call's
\* functions applied, whatever the call before was given, and stay as they
\* are while the call runs; a call without functions runs on the stored
\* options.
C39_OverridesAreLocal ==
    [][ /\ w' = w
        /\ w.options = WaiterOptions(WaiterMinDelay, WaiterMaxDelay, w.options.Retryable)
        /\ w.options.Retryable \in WaiterModels
        /\ \A mw \in MaxWaitTimes, fn \in OptFns :
              Wait(mw, fn) =>
                 /\ options' = ApplyOptFn(fn, WaiterOptions(WaiterMinDelay, WaiterMaxDelay,
                                                            w.options.Retryable))
                 /\ fn = NoOptFn => options' = w'.options
        /\ wpc \notin {"ready", "done"} => options' = options
      ]_vars

\* A Wait call given a function that replaces Retryable and turns the
\* logging on has returned; the waiter's options are the constructor's.
C39_Witness ==
    /\ wpc = "done"
    /\ wret = NoErr
    /\ options.LogWaitAttempts
    /\ options.Retryable = <<SuccessAcceptor("success")>>
    /\ ~w.options.LogWaitAttempts
    /\ w.options.Retryable # options.Retryable
    /\ w.options.MinDelay = WaiterMinDelay


\* ---------------------------------------------- registry claims, part three

MutatingOps == {"Add", "AddSlot", "Insert", "InsertSlot", "Swap", "Remove"}

\* C34: a call of Add, AddSlot, Insert, InsertSlot, Swap or Remove that
\* returns an error (empty id, duplicate id, missing anchor, slot mismatch,
\* invalid position, id not found) leaves the registry as it was: order, item
\* bindings and slots are the same, and List(), GetOrder() and Get(id) answer
\* as before the call.
C34_FailedCallsChangeNothing ==
    [][(last'.op \in MutatingOps /\ last'.err \in RegistryErrors) =>
          /\ ids' = ids
          /\ SameAnswers
      ]_vars

\* An Insert with a position that is neither Before nor After has been
\* refused on a registry that holds an item and a slot.
C34_Witness ==
    /\ last.op = "Insert"
    /\ last.err = ErrPosition
    /\ List = <<"a", "b">>
    /\ ids.slots = {"b"}
    /\ DOMAIN ids.items = {"a"}

\* C35: the ids in List() are the ids with a bound item together with the
\* slot ids: every bound item and every slot has a position in the order, and
\* every id in the order that is no slot has a bound item.
C35_ListedAreBoundOrSlots ==
    /\ Elems(List) = (DOMAIN ids.items) \cup ids.slots
    /\ \A id \in Elems(List) : id \notin ids.slots => GetOf(ids, id).ok
    /\ \A id \in IDArgs : GetOf(ids, id).ok => id \in Elems(List)
    /\ \A id \in IDArgs : IsSlot(ids, id) => id \in Elems(List)

\* A Swap has put a new id in the place of a bound one, next to a slot that
\* holds an item and a slot that holds none.
C35_Witness ==
    /\ last.op = "Swap"
    /\ last.err = NoErr
    /\ last.removed.id = "a"
    /\ List = <<"c", "b">>
    /\ ids.slots = {"b"}
    /\ DOMAIN ids.items = {"c"}

\* The elements of seq that are in the set S, in the order they have in seq.
Among(seq, S) == SelectSeq(seq, LAMBDA x : x \in S)

\* C36: no call other than Clear reorders the entries or drops a slot.  Two
\* ids that are in List() before and after an Add, AddSlot, Insert,
\* InsertSlot, Swap or Remove call are in the same order after it, and a slot
\* id is still a slot and still in List() after it, also after Remove of that
\* id and after Add or Swap have bound an item to it.
C36_OrderAndSlotsKept ==
    [][(last'.op \in MutatingOps /\ ids' # ids) =>
          LET was == Val(ids.order)
              is == Val(ids'.order) IN
          /\ ListOf(ids) = was /\ ListOf(ids') = is
          /\ Among(was, Elems(is)) = Among(is, Elems(was))
          /\ ids.slots \subseteq ids'.slots
          /\ ids.slots \subseteq Elems(is)
      ]_vars

\* A slot between two items has had its item removed: it is still a slot at
\* its place.
C36_Witness ==
    /\ last.op = "Remove"
    /\ last.err = NoErr
    /\ List = <<"a", "b", "c">>
    /\ ids.slots = {"b"}
    /\ DOMAIN ids.items = {"a", "c"}

FromTerminal(r) ==
    [out |-> [RawResponse |-> r.out, Result |-> Nil],
     metadata |-> r.metadata, err |-> r.err]

\* C38: the terminal handler's response reaches the innermost middleware as
\* the RawResponse of an output whose Result is empty, with the terminal
\* handler's metadata and error.  HandleMiddleware returns the Result field
\* of the chain's output, never the RawResponse: with no middleware bound,
\* and when the chain's output is the one the terminal handler's response
\* came in, the output returned is nil and the metadata and error returned
\* are the terminal handler's.
C38_OnlyResultIsReturned ==
    /\ pc = "running" =>
          \A i \in 1..Len(stack) :
             (i = Len(order) /\ stack[i].got # NoResult) =>
                \E r \in NextResults : stack[i].got = FromTerminal(r)
    /\ pc = "done" =>
          /\ ret.out = res.out.Result
          /\ res.out.Result = Nil => ret.out = Nil
          /\ Len(order) = 0 =>
                /\ TraceIDs = <<"next">>
                /\ \E r \in NextResults :
                      /\ res = FromTerminal(r)
                      /\ ret = [out |-> Nil, metadata |-> r.metadata, err |-> r.err]
          /\ \A r \in NextResults :
                res = FromTerminal(r) =>
                   ret = [out |-> Nil, metadata |-> r.metadata, err |-> r.err]

\* Two middleware have passed on what the terminal handler gave: a response
\* and an error.  HandleMiddleware has returned a nil output with the
\* terminal handler's metadata and error.
C38_Witness ==
    /\ pc = "done"
    /\ Len(order) = 2
    /\ EachCalledNextOnce
    /\ TraceIDs = OrderIDs \o <<"next">>
    /\ res.out.RawResponse = Iface("Response", "response")
    /\ res.out.Result = Nil
    /\ ret = [out |-> Nil, metadata |-> "Metadata{next}", err |-> "next failed"]

====
